---- MODULE Spec2Model ----
(***************************************************************************)
(* Model of the OpenFoodFacts nutritional data importer                    *)
(* (src/python/nutritional_data_importer): the streaming import loop, the  *)
(* duplicate queue, the batch writer with its per-row fallback and the     *)
(* cross-batch merge of queued duplicates into persisted records.          *)
(*                                                                         *)
(* Text is modelled by TLA+ strings.  A CSV cell is a string, or one of    *)
(* the two sentinels NaN (pandas' missing value) and None.                 *)
(***************************************************************************)
EXTENDS Integers, Sequences, FiniteSets, TLC

(***************************************************************************)
(* Python values and str methods                                           *)
(***************************************************************************)
NaN == "<NaN>"
None == "<None>"

\* pd.isna(v)
IsNa(v) == v = NaN \/ v = None

\* str(v)
Str(v) == IF v = NaN THEN "nan" ELSE IF v = None THEN "None" ELSE v

\* truthiness of a cell: NaN is a non-zero float, hence true
Truthy(v) == v # None /\ v # ""

CharAt(s, i) == SubSeq(s, i, i)

IsSpace(c) == c = " " \/ c = "\t"

RECURSIVE LStrip(_)
LStrip(s) ==
    IF Len(s) > 0 /\ IsSpace(CharAt(s, 1)) THEN LStrip(SubSeq(s, 2, Len(s))) ELSE s

RECURSIVE RStrip(_)
RStrip(s) ==
    IF Len(s) > 0 /\ IsSpace(CharAt(s, Len(s))) THEN RStrip(SubSeq(s, 1, Len(s) - 1)) ELSE s

\* str.strip()
Strip(s) == RStrip(LStrip(s))

UpperChars == "ABCDEFGHIJKLMNOPQRSTUVWXYZ"
LowerChars == "abcdefghijklmnopqrstuvwxyz"

LowerChar(c) ==
    IF \E i \in 1..26 : CharAt(UpperChars, i) = c
    THEN CharAt(LowerChars, CHOOSE i \in 1..26 : CharAt(UpperChars, i) = c)
    ELSE c

RECURSIVE Lower(_)
\* str.lower()
Lower(s) == IF Len(s) = 0 THEN "" ELSE LowerChar(CharAt(s, 1)) \o Lower(SubSeq(s, 2, Len(s)))

\* p in s
Contains(s, p) ==
    \/ Len(p) = 0
    \/ \E i \in 1..(Len(s) - Len(p) + 1) : SubSeq(s, i, i + Len(p) - 1) = p

\* s.startswith(p)
StartsWith(s, p) == Len(p) <= Len(s) /\ SubSeq(s, 1, Len(p)) = p

\* s.find(d) + 1, or 0 when d does not occur
Find(s, d) ==
    IF Contains(s, d) /\ Len(d) > 0
    THEN CHOOSE i \in 1..(Len(s) - Len(d) + 1) :
            /\ SubSeq(s, i, i + Len(d) - 1) = d
            /\ \A j \in 1..(i - 1) : SubSeq(s, j, j + Len(d) - 1) # d
    ELSE 0

RECURSIVE Split(_, _)
\* s.split(d), given the place i of the first d in s
SplitAt(s, d, i) ==
    IF i = 0 THEN <<s>>
    ELSE <<SubSeq(s, 1, i - 1)>> \o Split(SubSeq(s, i + Len(d), Len(s)), d)

\* s.split(d)
Split(s, d) == SplitAt(s, d, Find(s, d))

(***************************************************************************)
(* allergen_mapping.py                                                     *)
(***************************************************************************)
\* The keyword table of map_allergens_to_enum, in dictionary order.  The
\* patterns that hold non-ASCII letters are left out: the texts of this
\* model are ASCII, and none of them is a substring of a left-out pattern.
allergen_mapping == <<
    [tag |-> "MILK", patterns |-> <<"milk", "milch", "lait", "leite", "mleko", "latte",
        "kuhmilch", "cow milk", "cow's milk", "dairy", "dairy products", "milk products",
        "milk derivatives", "milkfat", "butter", "butterfat", "cream", "cheese", "whey",
        "casein", "lactose", "yogurt", "yoghurt", "cheddar", "mozzarella", "emmental",
        "milk protein", "milk solids", "cultured milk", "pasteurized milk", "nonfat milk",
        "whole milk", "milchprodukte", "milchbestandteile", "milcheiweiss">>],
    [tag |-> "EGGS", patterns |-> <<"eggs", "egg", "eier", "ovo", "uova", "jajka", "eieren",
        "egg white", "egg powder", "eigelb", "albumin">>],
    [tag |-> "WHEAT", patterns |-> <<"wheat", "weizen", "trigo", "wheat flour", "wheat gluten",
        "weizenmehl", "wheat starch", "wheat derivatives", "durum wheat", "wheat protein",
        "weizenprotein">>],
    [tag |-> "GLUTEN", patterns |-> <<"gluten", "glutenhaltiges getreide",
        "cereals containing gluten", "gluten-containing cereals">>],
    [tag |-> "SOYBEANS", patterns |-> <<"soy", "soja", "soya", "soybeans", "sojabohnen",
        "soybean", "soy protein", "soy lecithin", "sojaprotein">>],
    [tag |-> "TREE_NUTS", patterns |-> <<"tree nuts", "nuts", "noix", "frutta a guscio",
        "tree nut", "nut allergy">>],
    [tag |-> "ALMONDS", patterns |-> <<"almonds", "almond", "mandeln", "amandes", "mandorle",
        "almendras", "almond butter", "almond flour", "almond milk">>],
    [tag |-> "CASHEWS", patterns |-> <<"cashews", "cashew", "cashew nuts", "cashewkeme">>],
    [tag |-> "HAZELNUTS", patterns |-> <<"hazelnuts", "hazelnut", "haselnuss", "hazlenut">>],
    [tag |-> "WALNUTS", patterns |-> <<"walnuts", "walnut", "wallnuts", "black walnuts">>],
    [tag |-> "PEANUTS", patterns |-> <<"peanuts", "peanut", "arachides", "pinda",
        "peanut butter", "peanut oil", "groundnuts">>],
    [tag |-> "FISH", patterns |-> <<"fish", "fisch", "poisson", "pescado", "pesce", "vis",
        "anchovy", "anchovies", "sardines", "tuna", "salmon", "hoki", "pollock", "bonito",
        "herring", "flying fish">>],
    [tag |-> "SHELLFISH", patterns |-> <<"shellfish", "crustacean", "shrimp", "prawns", "crab",
        "lobster", "crayfish", "garnelen", "molluscs", "mollusks", "oyster", "mussel", "clam",
        "scallop">>],
    [tag |-> "SESAME", patterns |-> <<"sesame", "sesame seeds", "sesamsaat",
        "white sesame seeds">>],
    [tag |-> "MUSTARD", patterns |-> <<"mustard", "senf", "moutarde", "mustard seed",
        "mustard seeds", "gelbsenfsaat", "braunsenfsaat">>],
    [tag |-> "CELERY", patterns |-> <<"celery", "sellerie", "celery powder", "schnittselerie",
        "schnittsellerie">>],
    [tag |-> "SULPHITES", patterns |-> <<"sulphites", "sulfites", "sulfit", "sulfur dioxide",
        "metabisulphite", "sodium metabisulphite", "kaliummetabisulfit", "ammoniumsulfit",
        "natriummetabisulfit">>],
    [tag |-> "COCONUT", patterns |-> <<"coconut", "coconuts", "noix de coco", "coconut oil">>],
    [tag |-> "ALCOHOL", patterns |-> <<"alcohol", "alkohol", "ethanol">>],
    [tag |-> "PHENYLALANINE", patterns |-> <<"phenylalanine", "phenylalalnine", "phenilananin",
        "phenylalaninquelle">>],
    [tag |-> "LUPIN", patterns |-> <<"lupin", "lupine", "lupins">>],
    [tag |-> "CORN", patterns |-> <<"corn", "maize", "mais", "corn starch", "corn flour",
        "yellow corn", "sweet corn">>],
    [tag |-> "YEAST", patterns |-> <<"yeast", "hefe", "levure", "baker yeast",
        "nutritional yeast">>],
    [tag |-> "GELATIN", patterns |-> <<"gelatin", "gelatine", "beef gelatin", "pork gelatin">>],
    [tag |-> "KIWI", patterns |-> <<"kiwi", "kiwi fruit">>],
    [tag |-> "PORK", patterns |-> <<"pork", "schwein", "porc", "pig", "ham", "bacon",
        "pork gelatin", "lard">>],
    [tag |-> "BEEF", patterns |-> <<"beef", "rind", "cow", "cattle", "beef gelatin">>],
    [tag |-> "SULFUR_DIOXIDE", patterns |-> <<"sulfur dioxide", "sulphur dioxide", "so2", "e220">>]
>>

allergen_delimiters == <<",", ";", "|", "/", "+", "&", " and ", " et ", " und ">>

\* (the prefix with a non-ASCII letter is left out with the patterns)
allergen_prefixes == <<"en:", "de:", "fr:", "es:", "it:", "contains:", "contains ">>

skip_terms == <<"none", "nil", "n/a", "no known allergens", "keine", "warning",
    "may contain", "traces", "produced in", "manufactured on", "water", "salt", "sugar">>

\* the split of the text on the first delimiter of the list that occurs in it
AllergenParts(allergen_string) ==
    IF \E k \in DOMAIN allergen_delimiters : Contains(allergen_string, allergen_delimiters[k])
    THEN LET k == CHOOSE k \in DOMAIN allergen_delimiters :
                    /\ Contains(allergen_string, allergen_delimiters[k])
                    /\ \A j \in 1..(k - 1) : ~Contains(allergen_string, allergen_delimiters[j])
         IN  Split(allergen_string, allergen_delimiters[k])
    ELSE <<allergen_string>>

RECURSIVE RemovePrefixes(_, _)
\* every prefix of the list is tried once, in order, on the running text
RemovePrefixes(clean_part, k) ==
    IF k > Len(allergen_prefixes) THEN clean_part
    ELSE IF StartsWith(clean_part, allergen_prefixes[k])
         THEN RemovePrefixes(
                Strip(SubSeq(clean_part, Len(allergen_prefixes[k]) + 1, Len(clean_part))), k + 1)
         ELSE RemovePrefixes(clean_part, k + 1)

\* the loop over the table: the break leaves the pattern loop only, so every
\* tag with a matching pattern is added
MatchingTags(mapping, clean_part) ==
    { mapping[e].tag : e \in
        { e \in DOMAIN mapping :
            \E p \in DOMAIN mapping[e].patterns :
               \/ Contains(clean_part, mapping[e].patterns[p])
               \/ Contains(mapping[e].patterns[p], clean_part) } }

\* the tags a cleaned fragment contributes
CleanPartAllergens(clean_part) ==
    IF Len(clean_part) < 3 THEN {}
    ELSE IF \E k \in DOMAIN skip_terms : Contains(clean_part, skip_terms[k]) THEN {}
    ELSE MatchingTags(allergen_mapping, clean_part)

\* the tags one fragment contributes
PartAllergens(part) == CleanPartAllergens(RemovePrefixes(Lower(Strip(part)), 1))

PartsAllergens(parts) == UNION { PartAllergens(parts[i]) : i \in DOMAIN parts }

\* the body of map_allergens_to_enum, as the set of the tags of the returned
\* list
MapAllergenText(allergen_string) ==
    IF IsNa(allergen_string) \/ ~Truthy(allergen_string) THEN {}
    ELSE IF Strip(allergen_string) = "" THEN {}
    ELSE PartsAllergens(AllergenParts(allergen_string))

\* the orders in which list(set(...)) may hold the tags
Orderings(tags) ==
    { ord \in [1..Cardinality(tags) -> tags] :
        \A i, j \in 1..Cardinality(tags) : ord[i] = ord[j] => i = j }

RECURSIVE JoinAllergens(_)
\* ", ".join([f"en:{allergen.lower()}" for allergen in combined_allergens])
JoinAllergens(ord) ==
    IF Len(ord) = 0 THEN ""
    ELSE IF Len(ord) = 1 THEN "en:" \o Lower(ord[1])
    ELSE "en:" \o Lower(ord[1]) \o ", " \o JoinAllergens(Tail(ord))

\* The allergen texts of the rows of the model, and the texts that the
\* queue merge writes for the tags of these.  The mapping of these texts is
\* computed once; map_allergens_to_enum looks it up.
InputAllergenTexts == {"soy", "so2", "milk", "water"}

InputAllergenTags == UNION { MapAllergenText(t) : t \in InputAllergenTexts }

KnownAllergenTexts ==
    InputAllergenTexts \cup
        UNION { { JoinAllergens(ord) : ord \in Orderings(tags) } :
                    tags \in SUBSET InputAllergenTags }

AllergenTable == [t \in KnownAllergenTexts |-> MapAllergenText(t)]

LookupOr(table, key, value) == IF key \in DOMAIN table THEN table[key] ELSE value

map_allergens_to_enum(allergen_string) ==
    LookupOr(AllergenTable, allergen_string, MapAllergenText(allergen_string))

(***************************************************************************)
(* Numbers.  float(text) is modelled for plain decimal notation (optional  *)
(* sign, digits, optional point and digits) and the words nan and inf; a   *)
(* number is its sign, its integer part and its fraction in units of       *)
(* 10^-7.  Any other text makes float() raise ValueError.                  *)
(***************************************************************************)
Digits == "0123456789"

FracDigits == 7

RECURSIVE Pow10(_)
Pow10(n) == IF n = 0 THEN 1 ELSE 10 * Pow10(n - 1)

FracUnit == Pow10(FracDigits)

IsDigit(c) == \E i \in 1..10 : CharAt(Digits, i) = c

DigitVal(c) == (CHOOSE i \in 1..10 : CharAt(Digits, i) = c) - 1

IsDigits(s) == \A i \in 1..Len(s) : IsDigit(CharAt(s, i))

RECURSIVE DigitsToInt(_)
DigitsToInt(s) ==
    IF Len(s) = 0 THEN 0
    ELSE DigitsToInt(SubSeq(s, 1, Len(s) - 1)) * 10 + DigitVal(CharAt(s, Len(s)))

RECURSIVE PadRight(_, _)
PadRight(s, n) == IF Len(s) >= n THEN SubSeq(s, 1, n) ELSE PadRight(s \o "0", n)

FloatError == [ok |-> FALSE]

Number(neg, ip, fp) == [ok |-> TRUE, kind |-> "num", neg |-> neg, ip |-> ip, fp |-> fp]

FloatNan == [ok |-> TRUE, kind |-> "nan", neg |-> FALSE, ip |-> 0, fp |-> 0]

FloatInf(neg) == [ok |-> TRUE, kind |-> "inf", neg |-> neg, ip |-> 0, fp |-> 0]

Zero == Number(FALSE, 0, 0)

\* the digits before and after the point
ParseParts(neg, ipart, fpart) ==
    IF IsDigits(ipart) /\ IsDigits(fpart) /\ Len(ipart) + Len(fpart) > 0
    THEN Number(neg, DigitsToInt(ipart), DigitsToInt(PadRight(fpart, FracDigits)))
    ELSE FloatError

\* the text after the sign, with the place of its point
ParseDecimal(neg, body, dot) ==
    ParseParts(neg, IF dot = 0 THEN body ELSE SubSeq(body, 1, dot - 1),
                    IF dot = 0 THEN "" ELSE SubSeq(body, dot + 1, Len(body)))

ParseWord(neg, body, word) ==
    IF word = "nan" THEN FloatNan
    ELSE IF word = "inf" \/ word = "infinity" THEN FloatInf(neg)
    ELSE ParseDecimal(neg, body, Find(body, "."))

ParseBody(neg, body) == ParseWord(neg, body, Lower(body))

ParseStripped(t) ==
    ParseBody(StartsWith(t, "-"),
              IF StartsWith(t, "-") \/ StartsWith(t, "+") THEN SubSeq(t, 2, Len(t)) ELSE t)

\* float(text)
ParseFloat(text) == ParseStripped(Strip(text))

\* x == 0
NumIsZero(x) == x.kind = "num" /\ x.ip = 0 /\ x.fp = 0

\* x > 0
NumIsPositive(x) ==
    \/ x.kind = "inf" /\ ~x.neg
    \/ x.kind = "num" /\ ~x.neg /\ ~NumIsZero(x)

\* round(x, places), ties to the even digit
Round(x, places) ==
    LET unit == Pow10(FracDigits - places)
        q == x.fp \div unit
        r == x.fp % unit
        up == 2 * r > unit \/ (2 * r = unit /\ q % 2 = 1)
        q2 == IF up THEN q + 1 ELSE q
    IN  IF q2 = Pow10(places) THEN Number(x.neg, x.ip + 1, 0)
        ELSE Number(x.neg, x.ip, q2 * unit)

(***************************************************************************)
(* Values of prepared rows and of persisted records                        *)
(***************************************************************************)
DbNone == [none |-> TRUE]

DbStr(s) == [str |-> s]

DbNum(x) == [num |-> [neg |-> x.neg, ip |-> x.ip, fp |-> x.fp]]

\* a list of distinct allergen tags, as the set of its elements
DbList(tags) == [list |-> tags]

IsDbNone(v) == "none" \in DOMAIN v

IsDbStr(v) == "str" \in DOMAIN v

IsDbNum(v) == "num" \in DOMAIN v

IsDbList(v) == "list" \in DOMAIN v

(***************************************************************************)
(* data_cleaning.py                                                        *)
(***************************************************************************)
vitamin_mineral_columns == {"vitamin-a_100g", "vitamin-b6_100g", "vitamin-b12_100g",
    "vitamin-c_100g", "vitamin-d_100g", "vitamin-e_100g", "vitamin-k_100g", "calcium_100g",
    "iron_100g", "magnesium_100g", "potassium_100g", "sodium_100g", "zinc_100g"}

VitaminLimit == 10000

MacroLimit == 100000

SanityLimit == 1000000

EndsWith(s, p) == Len(p) <= Len(s) /\ SubSeq(s, Len(s) - Len(p) + 1, Len(s)) = p

\* the general sanity check of clean_numeric_value
SanityChecked(numeric_val) ==
    IF numeric_val.ip >= SanityLimit THEN DbNone ELSE DbNum(numeric_val)

\* the precision limits and the rounding of clean_numeric_value
LimitNumeric(numeric_val, column_name) ==
    IF ~numeric_val.ok THEN DbNone
    ELSE IF numeric_val.kind # "num" THEN DbNone
    ELSE IF column_name \in vitamin_mineral_columns
    THEN IF numeric_val.ip >= VitaminLimit THEN DbNone
         ELSE SanityChecked(Round(numeric_val, 6))
    ELSE IF \/ EndsWith(column_name, "_100g")
            \/ column_name = "nutriscore_score"
            \/ column_name = "serving_quantity"
    THEN IF numeric_val.ip >= MacroLimit THEN DbNone
         ELSE SanityChecked(Round(numeric_val, 3))
    ELSE SanityChecked(numeric_val)

\* clean_numeric_value from the stripped text on
CleanStripped(str_val, column_name) ==
    IF str_val = "" \/ Lower(str_val) = "nan" THEN DbNone
    ELSE LimitNumeric(ParseFloat(str_val), column_name)

\* clean_numeric_value of a CSV cell
clean_numeric_value(value, column_name) ==
    IF IsNa(value) \/ value = "" THEN DbNone
    ELSE CleanStripped(Strip(Str(value)), column_name)

\* clean_numeric_value of a value of a record: None or a number
clean_numeric_db_value(value, column_name) ==
    IF IsDbNum(value)
    THEN LimitNumeric(Number(value.num.neg, value.num.ip, value.num.fp), column_name)
    ELSE DbNone

\* a character that \w matches in a lower-cased text
IsWordChar(c) == IsDigit(c) \/ c = "_" \/ (\E i \in 1..26 : CharAt(LowerChars, i) = c)

\* the words w of s that a search for \bw\b finds: the maximal runs of word
\* characters
Words(s) ==
    { SubSeq(s, p[1], p[2]) :
        p \in { q \in (1..Len(s)) \X (1..Len(s)) :
                  /\ q[1] <= q[2]
                  /\ \A k \in q[1]..q[2] : IsWordChar(CharAt(s, k))
                  /\ (q[1] = 1 \/ ~IsWordChar(CharAt(s, q[1] - 1)))
                  /\ (q[2] = Len(s) \/ ~IsWordChar(CharAt(s, q[2] + 1))) } }

\* the words of paren_unit_patterns
paren_unit_patterns == {"ml", "milliliter", "l", "liter", "kg", "kilogram", "g", "gram",
    "gr", "oz", "once", "ounce", "lb", "pound"}

\* group 1 of the first match of \(([^)]*)\) from the parenthesis at i on
ParenContent(s, i) ==
    IF i = 0 \/ Find(SubSeq(s, i + 1, Len(s)), ")") = 0 THEN ""
    ELSE SubSeq(s, i + 1, i + Find(SubSeq(s, i + 1, Len(s)), ")") - 1)

\* the first priority of parse_serving_size returns: the parentheses hold a
\* number and a unit of weight or volume
ParenReturns(paren_content) ==
    /\ \E i \in 1..Len(paren_content) : IsDigit(CharAt(paren_content, i))
    /\ Words(paren_content) \cap paren_unit_patterns # {}

RECURSIVE SkipSpaces(_, _, _)
\* the first place from i on, in steps of d, that holds no white space
SkipSpaces(s, i, d) ==
    IF i < 1 \/ i > Len(s) THEN i
    ELSE IF IsSpace(CharAt(s, i)) THEN SkipSpaces(s, i + d, d) ELSE i

DigitAt(s, i) == i >= 1 /\ i <= Len(s) /\ IsDigit(CharAt(s, i))

RECURSIVE DigitRunEnd(_, _)
\* the last place of the run of digits that starts at i
DigitRunEnd(s, i) == IF DigitAt(s, i + 1) THEN DigitRunEnd(s, i + 1) ELSE i

\* the text that \d+(?:\.\d+)? matches at i, where s holds a digit
NumberFrom(s, i, e) ==
    IF e < Len(s) /\ CharAt(s, e + 1) = "." /\ DigitAt(s, e + 2)
    THEN SubSeq(s, i, DigitRunEnd(s, e + 2))
    ELSE SubSeq(s, i, e)

NumberAt(s, i) == NumberFrom(s, i, DigitRunEnd(s, i))

\* the places of a "/" where (\d+(?:\.\d+)?)\s*/\s*(\d+(?:\.\d+)?) matches
FractionSlashes(s) ==
    { k \in 1..Len(s) :
        /\ CharAt(s, k) = "/"
        /\ DigitAt(s, SkipSpaces(s, k - 1, -1))
        /\ DigitAt(s, SkipSpaces(s, k + 1, 1)) }

\* group 2 of fraction_match: the denominator of the first match
Denominator(s, slashes) ==
    NumberAt(s, SkipSpaces(s, (CHOOSE k \in slashes : \A m \in slashes : k <= m) + 1, 1))

\* numerator / denominator raises ZeroDivisionError for a denominator of 0
FractionRaises(s, slashes) ==
    slashes # {} /\ NumIsZero(ParseFloat(Denominator(s, slashes)))

\* unit_patterns: the words of every unit, in the order of the list.  The
\* list paren_unit_patterns holds its entries 4 to 9.
unit_patterns == <<
    [unit |-> "TBSP", words |-> {"tbsp", "tablespoon"}],
    [unit |-> "TSP", words |-> {"tsp", "teaspoon"}],
    [unit |-> "CUP", words |-> {"cup", "cups"}],
    [unit |-> "ML", words |-> {"ml", "milliliter"}],
    [unit |-> "L", words |-> {"l", "liter"}],
    [unit |-> "KG", words |-> {"kg", "kilogram"}],
    [unit |-> "G", words |-> {"g", "gram", "gr"}],
    [unit |-> "OZ", words |-> {"oz", "once", "ounce"}],
    [unit |-> "LB", words |-> {"lb", "pound"}],
    [unit |-> "SLICE", words |-> {"slice", "slices"}],
    [unit |-> "PIECE", words |-> {"piece", "pieces"}],
    [unit |-> "CAN", words |-> {"can"}],
    [unit |-> "BOTTLE", words |-> {"bottle"}],
    [unit |-> "PACKET", words |-> {"packet", "pkg", "package"}],
    [unit |-> "UNIT", words |-> {"unit", "units"}] >>

\* the unit of the first entry of the list with a word in the text, or None
FirstUnit(patterns, words) ==
    IF \E k \in DOMAIN patterns : patterns[k].words \cap words # {}
    THEN patterns[CHOOSE k \in DOMAIN patterns :
                     /\ patterns[k].words \cap words # {}
                     /\ \A j \in 1..(k - 1) : patterns[j].words \cap words = {}].unit
    ELSE None

\* a quantity: the quotient of two numbers, kept as the pair
Quantity(numerator, denominator) == [numerator |-> numerator, denominator |-> denominator]

\* float(text) of the text that \d+(?:\.\d+)? matches first in s, or None
\* (written as the None of a record)
FirstNumber(s) ==
    IF \E i \in 1..Len(s) : DigitAt(s, i)
    THEN Quantity(ParseFloat(NumberAt(s, CHOOSE i \in 1..Len(s) :
                                 DigitAt(s, i) /\ \A j \in 1..(i - 1) : ~DigitAt(s, j))),
                  Number(FALSE, 1, 0))
    ELSE DbNone

RECURSIVE DigitRunStart(_, _)
\* the first place of the run of digits that ends at i
DigitRunStart(s, i) == IF DigitAt(s, i - 1) THEN DigitRunStart(s, i - 1) ELSE i

\* the text that \d+(?:\.\d+)? matches up to e, where the run of digits
\* that ends at e starts at b
NumberUpTo(s, b, e) ==
    IF b > 2 /\ CharAt(s, b - 1) = "." /\ DigitAt(s, b - 2)
    THEN SubSeq(s, DigitRunStart(s, b - 2), e)
    ELSE SubSeq(s, b, e)

\* group 1 of fraction_match: the numerator of the first match, which ends
\* before the slash at k
Numerator(s, e) == NumberUpTo(s, DigitRunStart(s, e), e)

\* numerator / denominator of the first match
Fraction(s, k) ==
    Quantity(ParseFloat(Numerator(s, SkipSpaces(s, k - 1, -1))),
             ParseFloat(NumberAt(s, SkipSpaces(s, k + 1, 1))))

\* the quantity of the main serving description
MainQuantity(s, slashes) ==
    IF slashes # {} THEN Fraction(s, CHOOSE k \in slashes : \A m \in slashes : k <= m)
    ELSE FirstNumber(s)

\* bool(quantity): None and 0.0 are false
QuantityTruthy(quantity) == ~IsDbNone(quantity) /\ ~NumIsZero(quantity.numerator)

\* the special cases for a description without a word of unit_patterns
SpecialUnit(s, quantity) ==
    IF \E word \in {"cookie", "cracker", "whole", "stick", "bar"} : Contains(s, word)
    THEN "PIECE"
    ELSE IF (\E word \in {"serving", "portion"} : Contains(s, word))
               \/ (s # "" /\ QuantityTruthy(quantity))
    THEN "UNIT"
    ELSE None

MainUnit(s, quantity, unit) == IF unit # None THEN unit ELSE SpecialUnit(s, quantity)

\* what parse_serving_size returns: a unit without a quantity gets 1.0
ServingResult(quantity, unit) ==
    [raised |-> FALSE,
     quantity |-> IF unit # None /\ IsDbNone(quantity)
                  THEN Quantity(Number(FALSE, 1, 0), Number(FALSE, 1, 0)) ELSE quantity,
     unit |-> unit]

ServingRaised == [raised |-> TRUE, quantity |-> DbNone, unit |-> None]

\* the second priority: the main serving description
MainServing(s, quantity) ==
    ServingResult(quantity, MainUnit(s, quantity, FirstUnit(unit_patterns, Words(s))))

\* the first priority: the number and the unit of the parentheses
ParenServing(paren_content) ==
    ServingResult(FirstNumber(paren_content),
                  FirstUnit(SubSeq(unit_patterns, 4, 9), Words(paren_content)))

\* parse_serving_size from s on
ParseServing(s) ==
    IF ParenReturns(ParenContent(s, Find(s, "(")))
    THEN ParenServing(ParenContent(s, Find(s, "(")))
    ELSE IF FractionRaises(s, FractionSlashes(s)) THEN ServingRaised
    ELSE MainServing(s, MainQuantity(s, FractionSlashes(s)))

\* parse_serving_size: the quantity and the unit it returns, or that it
\* raises.  The two go to serving_quantity and serving_measurement, which
\* are not among the target columns of the model.
parse_serving_size(serving_size_str) ==
    IF IsNa(serving_size_str) \/ ~Truthy(serving_size_str) \/ Strip(serving_size_str) = ""
    THEN ServingResult(DbNone, None)
    ELSE ParseServing(Strip(Lower(serving_size_str)))

(***************************************************************************)
(* Columns.  The model keeps the key, the name, the two free-text fields,  *)
(* the allergens and the four core nutrient fields of get_table_columns,   *)
(* in the order of that list, and a CSV file with these columns, the       *)
(* countries column and the serving_size column.                           *)
(***************************************************************************)
target_columns == <<"code", "product_name", "brands", "categories", "allergens",
    "energy-kcal_100g", "carbohydrates_100g", "proteins_100g", "fat_100g">>

csv_columns == {"code", "product_name", "brands", "categories", "allergens",
    "energy-kcal_100g", "carbohydrates_100g", "proteins_100g", "fat_100g", "countries",
    "serving_size"}

\* the numeric_columns of prepare_row_data that are target columns of the model
numeric_columns == {"energy-kcal_100g", "carbohydrates_100g", "proteins_100g", "fat_100g"}

nutrition_fields == {"energy-kcal_100g", "proteins_100g", "carbohydrates_100g", "fat_100g"}

RECURSIVE ReplaceChar(_, _, _)
\* s.replace(a, b) for one-character a and b
ReplaceChar(s, a, b) ==
    IF Len(s) = 0 THEN ""
    ELSE (IF CharAt(s, 1) = a THEN b ELSE CharAt(s, 1)) \o ReplaceChar(SubSeq(s, 2, Len(s)), a, b)

\* col.replace("-", "_")
DbCol(col) == ReplaceChar(col, "-", "_")

\* db_columns of insert_batch_data: the record column of each target column
db_column == [i \in DOMAIN target_columns |-> DbCol(target_columns[i])]

db_columns == { db_column[i] : i \in DOMAIN target_columns }

\* row.get(col): None for a column the file does not have
Get(row, col) == IF col \in DOMAIN row THEN row[col] ELSE None

\* row.get(col, ''): the default for a column the file does not have
GetOr(row, col, default) == IF col \in DOMAIN row THEN row[col] ELSE default

(***************************************************************************)
(* data_processing.py                                                      *)
(***************************************************************************)
TextOrNone(stripped) == IF stripped = "" THEN DbNone ELSE DbStr(stripped)

\* the text branch of prepare_row_data and of convert_raw_row_to_db_format
CleanText(value) ==
    IF value # None /\ ~IsNa(value) THEN TextOrNone(Strip(Str(value))) ELSE DbNone

\* an empty list of tags is stored as None
ListOrNone(allergen_enums) ==
    IF allergen_enums # {} THEN DbList(allergen_enums) ELSE DbNone

PrepareValue(row, col) ==
    IF col \in csv_columns
    THEN IF col = "allergens" THEN ListOrNone(map_allergens_to_enum(row[col]))
         ELSE IF col \in numeric_columns THEN clean_numeric_value(row[col], col)
         ELSE CleanText(row[col])
    ELSE DbNone

\* prepare_row_data: the prepared row, one value per target column
prepare_row_data(row) == [i \in DOMAIN target_columns |-> PrepareValue(row, target_columns[i])]

american_identifiers == <<"united states", "usa", "us", "united-states",
    "en:united-states", "en:usa", "en:us">>

is_american_product(row) ==
    \E field \in { GetOr(row, "countries", ""), GetOr(row, "countries_tags", ""),
                   GetOr(row, "countries_en", "") } :
        /\ ~IsNa(field)
        /\ \E k \in DOMAIN american_identifiers :
              Contains(Lower(Str(field)), american_identifiers[k])

\* len(str(v)) of a value of a record
RECURSIVE SumLen(_)
SumLen(tags) ==
    IF tags = {} THEN 0
    ELSE LET t == CHOOSE t \in tags : TRUE IN Len(t) + 2 + SumLen(tags \ {t})

PyStrLen(v) ==
    IF IsDbNone(v) THEN 4
    ELSE IF IsDbStr(v) THEN Len(v.str)
    ELSE IF IsDbList(v)
    THEN IF v.list = {} THEN 2 ELSE 2 + SumLen(v.list) + 2 * (Cardinality(v.list) - 1)
    ELSE 0

IsEmptyStr(v) == IsDbStr(v) /\ v.str = ""

\* float(v) of a value of a record: a number, or an error
DbFloat(v) ==
    IF IsDbNum(v) THEN Number(v.num.neg, v.num.ip, v.num.fp)
    ELSE IF IsDbStr(v) THEN ParseFloat(v.str)
    ELSE FloatError

\* existing_num == 0 and new_num > 0; an error of float() gives False
ZeroToPositive(existing_num, new_num) ==
    /\ existing_num.ok
    /\ new_num.ok
    /\ NumIsZero(existing_num)
    /\ NumIsPositive(new_num)

should_update_field(existing_value, new_value, column_name) ==
    IF IsDbNone(new_value) \/ IsEmptyStr(new_value) THEN FALSE
    ELSE IF IsDbNone(existing_value) \/ IsEmptyStr(existing_value) THEN TRUE
    ELSE IF EndsWith(column_name, "_100g") \/ column_name = "nutriscore_score"
    THEN ZeroToPositive(DbFloat(existing_value), DbFloat(new_value))
    ELSE IF column_name \in {"brands", "categories", "allergens"}
    THEN PyStrLen(new_value) > PyStrLen(existing_value)
    ELSE FALSE

(***************************************************************************)
(* duplicate_handling.py                                                   *)
(***************************************************************************)
\* pd.isna(v) or v is None or v == ""
IsMissing(v) == IsNa(v) \/ v = ""

\* the tags that the allergens branch of merge_queue_items combines
CombinedAllergens(existing_value, new_value) ==
    (IF Truthy(existing_value) THEN map_allergens_to_enum(existing_value) ELSE {})
        \cup (IF Truthy(new_value) THEN map_allergens_to_enum(new_value) ELSE {})

\* float(v) if not pd.isna(v) else 0
FloatOrZero(v) == IF ~IsNa(v) THEN ParseFloat(v) ELSE Zero

\* existing_num < new_num, for two numbers that are not negative
LargerNumber(existing_num, new_num) ==
    /\ existing_num.ok /\ existing_num.kind = "num" /\ ~existing_num.neg
    /\ new_num.ok /\ new_num.kind = "num" /\ ~new_num.neg
    /\ \/ existing_num.ip < new_num.ip
       \/ existing_num.ip = new_num.ip /\ existing_num.fp < new_num.fp

\* a merge that keeps the larger of the two nutrient values
MergeQueueFieldLargerNutrient(col, existing_value, new_value, ord) ==
    IF IsMissing(existing_value) /\ ~IsMissing(new_value) THEN new_value
    ELSE IF col \in nutrition_fields /\ (\E i \in DOMAIN target_columns : target_columns[i] = col)
    THEN IF LargerNumber(FloatOrZero(existing_value), FloatOrZero(new_value))
         THEN new_value ELSE existing_value
    ELSE IF col = "allergens"
    THEN IF Len(ord) > 0 THEN JoinAllergens(ord) ELSE None
    ELSE IF col \in {"brands", "categories"} /\ Len(Str(new_value)) > Len(Str(existing_value))
    THEN new_value
    ELSE existing_value

\* a merge that takes every positive nutrient value of the new row
MergeQueueFieldLatestNutrient(col, existing_value, new_value, ord) ==
    IF IsMissing(existing_value) /\ ~IsMissing(new_value) THEN new_value
    ELSE IF col \in nutrition_fields /\ (\E i \in DOMAIN target_columns : target_columns[i] = col)
    THEN IF FloatOrZero(new_value).ok /\ NumIsPositive(FloatOrZero(new_value))
         THEN new_value ELSE existing_value
    ELSE IF col = "allergens"
    THEN IF Len(ord) > 0 THEN JoinAllergens(ord) ELSE None
    ELSE IF col \in {"brands", "categories"} /\ Len(Str(new_value)) > Len(Str(existing_value))
    THEN new_value
    ELSE existing_value

\* a merge in which the last present value of a plain field wins
MergeQueueFieldLastSeen(col, existing_value, new_value, ord) ==
    IF IsMissing(existing_value) /\ ~IsMissing(new_value) THEN new_value
    ELSE IF col \in nutrition_fields /\ (\E i \in DOMAIN target_columns : target_columns[i] = col)
    THEN IF ZeroToPositive(FloatOrZero(existing_value), FloatOrZero(new_value))
         THEN new_value ELSE existing_value
    ELSE IF col = "allergens"
    THEN IF Len(ord) > 0 THEN JoinAllergens(ord) ELSE None
    ELSE IF col \in {"brands", "categories"} /\ Len(Str(new_value)) > Len(Str(existing_value))
    THEN new_value
    ELSE IF ~IsMissing(new_value) THEN new_value ELSE existing_value

\* one column of merge_queue_items; ord is the order of the combined tags
MergeQueueField(col, existing_value, new_value, ord) ==
    IF IsMissing(existing_value) /\ ~IsMissing(new_value) THEN new_value
    ELSE IF col \in nutrition_fields /\ (\E i \in DOMAIN target_columns : target_columns[i] = col)
    THEN IF ZeroToPositive(FloatOrZero(existing_value), FloatOrZero(new_value))
         THEN new_value ELSE existing_value
    ELSE IF col = "allergens"
    THEN IF Len(ord) > 0 THEN JoinAllergens(ord) ELSE None
    ELSE IF col \in {"brands", "categories"} /\ Len(Str(new_value)) > Len(Str(existing_value))
    THEN new_value
    ELSE existing_value

\* merge_queue_items; ord orders CombinedAllergens of the two allergens cells
merge_queue_items(existing_row, new_row, ord) ==
    [col \in csv_columns |-> MergeQueueField(col, existing_row[col], new_row[col], ord)]

\* the cleaned value convert_raw_row_to_db_format compares with the record's
ConvertValue(raw_row, col) ==
    IF col = "allergens"
    THEN IF Truthy(Get(raw_row, col)) /\ ~IsNa(Get(raw_row, col))
         THEN DbList(map_allergens_to_enum(Get(raw_row, col))) ELSE DbNone
    ELSE IF col = "nutriscore_score" \/ EndsWith(col, "_100g")
    THEN clean_numeric_value(Get(raw_row, col), col)
    ELSE CleanText(Get(raw_row, col))

\* the target column whose record column is c
TargetOf(c) == target_columns[CHOOSE i \in DOMAIN target_columns : db_column[i] = c]

\* the merge logic of convert_raw_row_to_db_format for one column
ConvertField(existing_value, clean_value, col) ==
    IF col # "code" /\ should_update_field(existing_value, clean_value, col)
    THEN clean_value ELSE existing_value

ConvertColumn(existing_value, raw_row, col) ==
    ConvertField(existing_value, ConvertValue(raw_row, col), col)

convert_raw_row_to_db_format(existing_product, raw_row) ==
    [c \in DOMAIN existing_product |-> ConvertColumn(existing_product[c], raw_row, TargetOf(c))]

(***************************************************************************)
(* database.py.  The store maps a product code to the record persisted     *)
(* under it.  Every statement runs on a connection of its own, taken from  *)
(* the engine and committed at once, so a write is in the store as soon as *)
(* its statement succeeds.                                                 *)
(***************************************************************************)
\* dict(zip(valid_columns, row_data))
RowDict(row_data) ==
    [c \in db_columns |-> row_data[CHOOSE i \in DOMAIN target_columns : db_column[i] = c]]

\* the key under which a prepared row is upserted
CodeOf(row_data) == RowDict(row_data)["code"].str

\* an upsert that keeps the stored value where the incoming one is None
UpsertKeepingPresent(st, row_data) ==
    [code \in DOMAIN st \cup {CodeOf(row_data)} |->
        IF code = CodeOf(row_data)
        THEN IF code \in DOMAIN st
             THEN [c \in db_columns |->
                     IF IsDbNone(RowDict(row_data)[c]) THEN st[code][c]
                     ELSE RowDict(row_data)[c]]
             ELSE RowDict(row_data)
        ELSE st[code]]

\* INSERT ... ON CONFLICT (code) DO UPDATE SET every other column
Upsert(st, row_data) ==
    [code \in DOMAIN st \cup {CodeOf(row_data)} |->
        IF code = CodeOf(row_data) THEN RowDict(row_data) ELSE st[code]]

RECURSIVE UpsertAll(_, _, _, _)
\* the rows of batch_data from index i on, written in order, but for the
\* rows of rejected
UpsertAll(st, batch, i, rejected) ==
    IF i > Len(batch) THEN st
    ELSE UpsertAll(IF i \in rejected THEN st ELSE Upsert(st, batch[i]), batch, i + 1, rejected)

BatchInsertFailed == "Batch insert failed"

BatchRecovery == "Batch failed, individual recovery"

\* insert_single_row: whether the call raises for a row that the store
\* rejects (row_rejected) or accepts.  Its try block covers the whole body
\* and its handler appends to the results it was given and returns.
InsertSingleRowRaises(row_rejected) == FALSE

\* success_count and fail_count of the fallback loop of insert_batch_data
FallbackSuccessCount(batch, rejected) ==
    Cardinality({ i \in DOMAIN batch : ~InsertSingleRowRaises(i \in rejected) })

FallbackFailCount(batch, rejected) ==
    Cardinality({ i \in DOMAIN batch : InsertSingleRowRaises(i \in rejected) })

\* insert_batch_data.  batch_ok: the set-based upsert succeeds; rejected: the
\* rows of the batch whose single-row insert fails.
insert_batch_data(st, batch, batch_ok, rejected) ==
    IF batch_ok
    THEN [imported |-> Len(batch), duplicates |-> 0, errors |-> <<>>,
          store |-> UpsertAll(st, batch, 1, {}), conn_ops |-> <<>>]
    ELSE [imported |-> FallbackSuccessCount(batch, rejected),
          duplicates |-> 0,
          errors |-> (IF FallbackFailCount(batch, rejected) > 0
                      THEN <<BatchRecovery>> ELSE <<>>) \o <<BatchInsertFailed>>,
          store |-> UpsertAll(st, batch, 1, rejected), conn_ops |-> <<"rollback">>]

\* str(product_name).strip().lower()
NameKey(product_name) == Lower(Strip(Str(product_name)))

\* batch_query_existing_products: the records by normalized name; {} when the
\* query fails
batch_query_existing_products(st, product_names, query_ok) ==
    IF product_names = {} \/ ~query_ok THEN {}
    ELSE { code \in DOMAIN st :
             /\ IsDbStr(st[code]["product_name"])
             /\ Lower(Strip(st[code]["product_name"].str)) \in
                    { Lower(Strip(name)) : name \in product_names } }

\* the record that the result dictionary holds under a name
ExistingProduct(st, found, product_name) ==
    { code \in found : Lower(Strip(st[code]["product_name"].str)) = product_name }

\* the value update_existing_product_batch compares with the record's
MergedValue(merged_row, c) ==
    IF \/ EndsWith(TargetOf(c), "_100g")
       \/ TargetOf(c) = "nutriscore_score"
       \/ TargetOf(c) = "serving_quantity"
    THEN clean_numeric_db_value(merged_row[c], TargetOf(c))
    ELSE merged_row[c]

\* whether the float nearest to a decimal number is that number: its
\* fraction is a multiple of 2^-FracDigits
FloatIsExact(num) == num.fp % (FracUnit \div 2 ^ FracDigits) = 0

\* original_value != merged_value.  The number of a record is read as a
\* Decimal and the number clean_numeric_value returns is a float: the two
\* are equal only where the float holds the decimal number exactly.
ValueDiffers(original_value, merged_value) ==
    \/ original_value # merged_value
    \/ IsDbNum(original_value) /\ IsDbNum(merged_value) /\ ~FloatIsExact(merged_value.num)

\* whether update_existing_product_batch puts the column in its UPDATE
FieldChanged(original_value, merged_value, c) ==
    /\ TargetOf(c) # "code"
    /\ ValueDiffers(original_value, merged_value)
    /\ (c = "allergens" => IsDbList(merged_value))

\* the columns update_existing_product_batch puts in its UPDATE
UpdateFields(original_row, merged_row) ==
    { c \in DOMAIN original_row :
        FieldChanged(original_row[c], MergedValue(merged_row, c), c) }

\* the UPDATE of the columns of fields; update_ok: the statement succeeds
ExecuteUpdate(st, code, fields, merged_row, update_ok) ==
    IF fields = {} THEN [success |-> TRUE, store |-> st]
    ELSE IF update_ok
    THEN [success |-> TRUE,
          store |-> [st EXCEPT ![code] =
                       [c \in DOMAIN st[code] |->
                           IF c \in fields THEN MergedValue(merged_row, c) ELSE st[code][c]]]]
    ELSE [success |-> FALSE, store |-> st]

update_existing_product_batch(st, code, original_row, merged_row, update_ok) ==
    ExecuteUpdate(st, code, UpdateFields(original_row, merged_row), merged_row, update_ok)

(***************************************************************************)
(* process_duplicate_queue_batch                                           *)
(***************************************************************************)
FailureThreshold == 5

DuplicateBatchFailed == "Batch duplicate processing failed"

\* what the loop did with one entry of the queue
LogEntry(item, code, found, changed, success) ==
    [product_name_clean |-> item.product_name_clean, row |-> item.row, code |-> code,
     found |-> found, changed |-> changed,
     merged |-> found /\ success, failed |-> found /\ ~success]

\* a loop that gives up at its first failed merge
CountMergeOrAbort(item, code, changed, upd, acc) ==
    IF upd.success
    THEN [acc EXCEPT !.store = upd.store,
                     !.processed_count = @ + 1,
                     !.rows_merged_duplicates = @ + 1,
                     !.log = Append(@, LogEntry(item, code, TRUE, changed, TRUE))]
    ELSE [acc EXCEPT !.failed_count = @ + 1,
                     !.raised = TRUE,
                     !.log = Append(@, LogEntry(item, code, TRUE, changed, FALSE))]

\* the counters after the call of update_existing_product_batch for an entry
CountMerge(item, code, changed, upd, acc) ==
    IF upd.success
    THEN [acc EXCEPT !.store = upd.store,
                     !.processed_count = @ + 1,
                     !.rows_merged_duplicates = @ + 1,
                     !.log = Append(@, LogEntry(item, code, TRUE, changed, TRUE))]
    ELSE [acc EXCEPT !.failed_count = @ + 1,
                     !.raised = acc.failed_count + 1 >= FailureThreshold,
                     !.log = Append(@, LogEntry(item, code, TRUE, changed, FALSE))]

\* an entry whose record was found: the merged row and its update
MergeFound(item, code, original_row, merged_db_row, update_ok, acc) ==
    CountMerge(item, code, UpdateFields(original_row, merged_db_row) # {},
               update_existing_product_batch(acc.store, code, original_row, merged_db_row,
                                             update_ok),
               acc)

\* one iteration of the loop; existing holds the code of the record the
\* result of the query has under the name of the entry, if any
DrainEntry(item, existing, snapshot, update_ok, acc) ==
    IF existing = {}
    THEN [acc EXCEPT !.log = Append(@, LogEntry(item, "", FALSE, FALSE, FALSE))]
    ELSE MergeFound(item, CHOOSE code \in existing : TRUE,
                    snapshot[CHOOSE code \in existing : TRUE],
                    convert_raw_row_to_db_format(snapshot[CHOOSE code \in existing : TRUE],
                                                 item.row),
                    update_ok, acc)

RECURSIVE DrainLoop(_, _, _, _, _, _)
\* the loop over duplicate_queue.items() from entry i on.  snapshot is the
\* store as batch_query_existing_products read it, found the codes of the
\* records it returned, update_ok[i] whether the UPDATE of entry i succeeds,
\* acc the running store, counters and log.
DrainLoop(queue, i, snapshot, found, update_ok, acc) ==
    IF i > Len(queue) \/ acc.raised THEN acc
    ELSE DrainLoop(queue, i + 1, snapshot, found, update_ok,
                   DrainEntry(queue[i],
                              ExistingProduct(snapshot, found, queue[i].product_name_clean),
                              snapshot, update_ok[i], acc))

\* process_duplicate_queue_batch: the store, the counters and whether the
\* call raises; an empty queue returns at once
process_duplicate_queue_batch(st, queue, query_ok, update_ok) ==
    DrainLoop(queue, 1, st,
              batch_query_existing_products(st,
                  { queue[i].product_name_clean : i \in DOMAIN queue }, query_ok),
              update_ok,
              [store |-> st, processed_count |-> 0, failed_count |-> 0,
               rows_merged_duplicates |-> 0, raised |-> FALSE, log |-> <<>>])

(***************************************************************************)
(* import_core.py: import_ingredients_from_csv                             *)
(***************************************************************************)
\* Bounds of the model.  ChunkSize, BatchLimit and CommitEvery stand for the
\* chunk size 10000, the batch size 1000 and the commit period 10 of the
\* source, scaled down.
ChunkSize == 2

BatchLimit == 2

CommitEvery == 2

\* The rows of the file at most.
MaxRows == 4

Row(code, product_name, brands, allergens, energy, countries) ==
    [col \in csv_columns |->
        CASE col = "code" -> code
          [] col = "product_name" -> product_name
          [] col = "brands" -> brands
          [] col = "allergens" -> allergens
          [] col = "energy-kcal_100g" -> energy
          [] col = "countries" -> countries
          [] OTHER -> NaN]

\* The rows a chunk may hold: two valid products, a second occurrence of
\* the first under another code, spelling and country and without nutrient
\* data, and one row for each of the other reasons to skip.
InputRows == {
    Row("11", "Jam", "Bo", "soy", "0", "United States"),
    Row("12", " jam ", "Bonne", "so2", NaN, "France"),
    Row("21", "Tea", NaN, NaN, "12.5", "en:us"),
    Row(NaN, "Tea", NaN, NaN, "1", "US"),
    Row("31", "  ", NaN, NaN, "1", "US"),
    Row("41", "Pie", NaN, "milk", "250", "France") }

VARIABLES
    pc,                  \* "read", "rows", "done" (returned), "raised", "interrupted"
    chunk_num,           \* the number of the chunk being processed
    chunk_len,           \* its number of rows
    pos,                 \* the rows of it processed so far
    results,             \* the counters and the error list
    seen_product_names,
    duplicate_queue,     \* the entries, in the order of their insertion
    batch_data,
    store,               \* the persisted records, by code
    committed,           \* the store at the last commit of the connection
    conn,                \* the calls made on the connection of the run, in order
    row,                 \* the row processed last
    routed,              \* where it went
    last_batch,          \* the last call of insert_batch_data
    last_drain           \* the last call of process_duplicate_queue_batch

vars == <<pc, chunk_num, chunk_len, pos, results, seen_product_names, duplicate_queue,
          batch_data, store, committed, conn, row, routed, last_batch, last_drain>>

NoBatch == [called |-> FALSE, size |-> 0, batch_ok |-> TRUE, rejected |-> 0,
            imported |-> 0, errors |-> <<>>, batch |-> <<>>, written |-> {},
            before |-> <<>>, after |-> <<>>]

NoDrain == [called |-> FALSE, raised |-> FALSE, failed_count |-> 0, log |-> <<>>,
            queue |-> <<>>, before |-> <<>>, after |-> <<>>]

InitResults ==
    [rows_processed |-> 0, rows_imported |-> 0, rows_skipped |-> 0,
     rows_skipped_no_nutrition |-> 0, rows_skipped_duplicate_name |-> 0,
     rows_skipped_non_american |-> 0, rows_merged_duplicates |-> 0,
     duplicate_codes |-> 0, errors |-> <<>>]

Init ==
    /\ pc = "read"
    /\ chunk_num = 0
    /\ chunk_len = 0
    /\ pos = 0
    /\ results = InitResults
    /\ seen_product_names = {}
    /\ duplicate_queue = <<>>
    /\ batch_data = <<>>
    /\ store = <<>>
    /\ committed = <<>>
    /\ conn = <<>>
    /\ row = Row(NaN, NaN, NaN, NaN, NaN, NaN)
    /\ routed = "none"
    /\ last_batch = NoBatch
    /\ last_drain = NoDrain

\* pd.isna(v) or not str(v).strip()
IsBlank(v) == IsNa(v) \/ Strip(Str(v)) = ""

has_nutrition(r) == \E col \in nutrition_fields : ~IsNa(Get(r, col))

\* product_name_clean of a row
product_name_clean(r) == NameKey(r["product_name"])

\* a lookup of the queue under the name as the row spells it
InQueueBySpelling(queue, name) ==
    \E i \in DOMAIN queue : queue[i].row["product_name"] = name

InQueue(queue, name) == \E i \in DOMAIN queue : queue[i].product_name_clean = name

QueueIndex(queue, name) == CHOOSE i \in DOMAIN queue : queue[i].product_name_clean = name

\* a row loop that knows a name only while its entry is in the queue
RouteForgettingDrained(r, seen, queue) ==
    IF IsBlank(Get(r, "code")) THEN "skip_code"
    ELSE IF IsBlank(Get(r, "product_name")) THEN "skip_name"
    ELSE IF InQueue(queue, product_name_clean(r)) THEN "queue_merge"
    ELSE IF product_name_clean(r) \in seen /\ queue # <<>> THEN "queue_new"
    ELSE IF ~has_nutrition(r) THEN "skip_no_nutrition"
    ELSE IF ~is_american_product(r) THEN "skip_non_american"
    ELSE "batch"

\* a row loop that queues the rows of products that are not American
RouteQueueingForeign(r, seen, queue) ==
    IF IsBlank(Get(r, "code")) THEN "skip_code"
    ELSE IF IsBlank(Get(r, "product_name")) THEN "skip_name"
    ELSE IF product_name_clean(r) \in seen
    THEN IF InQueue(queue, product_name_clean(r)) THEN "queue_merge" ELSE "queue_new"
    ELSE IF ~has_nutrition(r) THEN "skip_no_nutrition"
    ELSE IF ~is_american_product(r)
    THEN IF InQueue(queue, product_name_clean(r)) THEN "queue_merge" ELSE "queue_new"
    ELSE "batch"

\* where the row loop sends a row
Route(r, seen, queue) ==
    IF IsBlank(Get(r, "code")) THEN "skip_code"
    ELSE IF IsBlank(Get(r, "product_name")) THEN "skip_name"
    ELSE IF product_name_clean(r) \in seen
    THEN IF InQueue(queue, product_name_clean(r)) THEN "queue_merge" ELSE "queue_new"
    ELSE IF ~has_nutrition(r) THEN "skip_no_nutrition"
    ELSE IF ~is_american_product(r) THEN "skip_non_american"
    ELSE "batch"

\* what a call of insert_batch_data leaves in the counters of the caller
BatchOutcome(res, st, batch, batch_ok, rejected, out) ==
    [results |-> [res EXCEPT !.rows_imported = @ + out.imported,
                             !.duplicate_codes = @ + out.duplicates,
                             !.errors = @ \o out.errors,
                             !.rows_processed = @ + Len(batch)],
     store |-> out.store,
     conn_ops |-> out.conn_ops,
     last_batch |-> [called |-> TRUE, size |-> Len(batch), batch_ok |-> batch_ok,
                     rejected |-> Cardinality(rejected \cap DOMAIN batch),
                     imported |-> out.imported, errors |-> out.errors,
                     batch |-> batch,
                     written |-> IF batch_ok THEN DOMAIN batch ELSE DOMAIN batch \ rejected,
                     before |-> st, after |-> out.store]]

\* the calls of insert_batch_data in the row loop and after it
WriteBatch(res, st, batch, batch_ok, rejected) ==
    BatchOutcome(res, st, batch, batch_ok, rejected,
                 insert_batch_data(st, batch, batch_ok, rejected))

\* a set-based upsert cannot write two rows of one code
DistinctCodes(batch) ==
    \A i, j \in DOMAIN batch : CodeOf(batch[i]) = CodeOf(batch[j]) => i = j

Oracle(batch, batch_ok, rejected) ==
    /\ rejected \subseteq DOMAIN batch
    /\ batch_ok => rejected = {} /\ DistinctCodes(batch)

\* the counter that the row loop increments for a rejected row
SkipCounter(route) ==
    CASE route = "skip_code" -> "rows_skipped"
      [] route = "skip_name" -> "rows_skipped"
      [] route = "skip_no_nutrition" -> "rows_skipped_no_nutrition"
      [] route = "skip_non_american" -> "rows_skipped_non_american"

\* a row without code or without name
SkipRow ==
    /\ results' = [results EXCEPT !.rows_skipped = @ + 1]
    /\ UNCHANGED <<seen_product_names, duplicate_queue, batch_data, store, last_batch, conn>>

\* a row whose name was seen and is in the queue: merged into its entry
QueueMerge(r, k) ==
    /\ \E ord \in Orderings(CombinedAllergens(duplicate_queue[k].row["allergens"],
                                              r["allergens"])) :
          duplicate_queue' = [duplicate_queue EXCEPT ![k].row = merge_queue_items(@, r, ord)]
    /\ results' = [results EXCEPT !.rows_skipped_duplicate_name = @ + 1]
    /\ UNCHANGED <<seen_product_names, batch_data, store, last_batch, conn>>

\* a new entry of the queue whose row is not counted
QueueNewUncounted(r, name) ==
    /\ duplicate_queue' = Append(duplicate_queue, [product_name_clean |-> name, row |-> r])
    /\ UNCHANGED <<results, seen_product_names, batch_data, store, last_batch, conn>>

\* a row whose name was seen and is not in the queue: a new entry
QueueNew(r, name) ==
    /\ duplicate_queue' = Append(duplicate_queue, [product_name_clean |-> name, row |-> r])
    /\ results' = [results EXCEPT !.rows_skipped_duplicate_name = @ + 1]
    /\ UNCHANGED <<seen_product_names, batch_data, store, last_batch, conn>>

SkipNoNutrition ==
    /\ results' = [results EXCEPT !.rows_skipped_no_nutrition = @ + 1]
    /\ UNCHANGED <<seen_product_names, duplicate_queue, batch_data, store, last_batch, conn>>

SkipNonAmerican ==
    /\ results' = [results EXCEPT !.rows_skipped_non_american = @ + 1]
    /\ UNCHANGED <<seen_product_names, duplicate_queue, batch_data, store, last_batch, conn>>

\* the batch is full: written and emptied
FlushBatch(batch) ==
    /\ \E batch_ok \in BOOLEAN, rejected \in SUBSET DOMAIN batch :
          /\ Oracle(batch, batch_ok, rejected)
          /\ \E w \in {WriteBatch(results, store, batch, batch_ok, rejected)} :
                /\ results' = w.results
                /\ store' = w.store
                /\ last_batch' = w.last_batch
                /\ conn' = conn \o w.conn_ops
    /\ batch_data' = <<>>

\* a row loop that writes the batch when it holds more rows than the limit
AddToBatchLate(name, batch) ==
    /\ seen_product_names' = seen_product_names \cup {name}
    /\ UNCHANGED duplicate_queue
    /\ IF Len(batch) > BatchLimit
       THEN FlushBatch(batch)
       ELSE /\ batch_data' = batch
            /\ UNCHANGED <<results, store, last_batch, conn>>

\* a new product: its name recorded, its prepared row added to the batch
AddToBatch(name, batch) ==
    /\ seen_product_names' = seen_product_names \cup {name}
    /\ UNCHANGED duplicate_queue
    /\ IF Len(batch) >= BatchLimit
       THEN FlushBatch(batch)
       ELSE /\ batch_data' = batch
            /\ UNCHANGED <<results, store, last_batch, conn>>

CsvParsingError == "CSV parsing error"

ImportFailed == "Import failed"

\* conn.commit(): the store as it is becomes the state of the last commit
ConnCommit(st) == st

\* conn.rollback(): no statement of the run was executed on conn, so there
\* is no write for it to undo
ConnRollback(st, last_commit) == st

\* a drain that reports every call with a failed merge in the error list
DrainOutcomeReportingFailures(res, st, queue, d) ==
    [drained |-> TRUE,
     results |-> [res EXCEPT !.rows_merged_duplicates = @ + d.rows_merged_duplicates,
                             !.errors = IF d.failed_count > 0
                                        THEN Append(@, DuplicateBatchFailed) ELSE @],
     store |-> d.store,
     raised |-> d.raised,
     last_drain |-> [called |-> TRUE, raised |-> d.raised,
                     failed_count |-> d.failed_count, log |-> d.log, queue |-> queue,
                     before |-> st, after |-> d.store]]

\* what a call of process_duplicate_queue_batch leaves in results
DrainOutcome(res, st, queue, d) ==
    [drained |-> TRUE,
     results |-> [res EXCEPT !.rows_merged_duplicates = @ + d.rows_merged_duplicates,
                             !.errors = IF d.raised THEN Append(@, DuplicateBatchFailed)
                                        ELSE @],
     store |-> d.store,
     raised |-> d.raised,
     last_drain |-> [called |-> TRUE, raised |-> d.raised,
                     failed_count |-> d.failed_count, log |-> d.log, queue |-> queue,
                     before |-> st, after |-> d.store]]

\* the call of process_duplicate_queue_batch
RunDrain(res, st, queue, query_ok, update_ok) ==
    DrainOutcome(res, st, queue,
                 process_duplicate_queue_batch(st, queue, query_ok, update_ok))

\* the condition of the call is false
SkipDrain(res, st) ==
    [drained |-> FALSE, results |-> res, store |-> st, raised |-> FALSE,
     last_drain |-> last_drain]

\* a handler that commits what was done, as the handler of a parser error
FailRunCommitting(res, st, ops) ==
    /\ store' = st
    /\ committed' = ConnCommit(st)
    /\ results' = [res EXCEPT !.errors = Append(@, ImportFailed)]
    /\ conn' = ops \o <<"commit", "close">>
    /\ pc' = "raised"

\* the handler of an exception that is not a parser error, and the finally
\* clause: rollback, the error recorded, the exception raised again
FailRun(res, st, ops) ==
    /\ store' = ConnRollback(st, committed)
    /\ results' = [res EXCEPT !.errors = Append(@, ImportFailed)]
    /\ conn' = ops \o <<"rollback", "close">>
    /\ pc' = "raised"
    /\ UNCHANGED committed

\* the call of parse_serving_size at the head of prepare_row_data raises
PrepareRaises(r) == parse_serving_size(Get(r, "serving_size")).raised

\* prepare_row_data raised in the row loop: the name was recorded, the row
\* is not in the batch, the exception ends the run
PrepareRaised(name) ==
    /\ seen_product_names' = seen_product_names \cup {name}
    /\ FailRun(results, store, conn)
    /\ UNCHANGED <<duplicate_queue, batch_data, last_batch>>

\* one iteration of the loop over the rows of a chunk, for a row of rows
ProcessRowOf(rows) ==
    /\ pc = "rows"
    /\ pos < chunk_len
    /\ \E r \in rows :
        \E name \in {product_name_clean(r)},
           route \in {Route(r, seen_product_names, duplicate_queue)} :
            /\ row' = r
            /\ routed' = route
            /\ pos' = pos + 1
            /\ UNCHANGED <<chunk_num, chunk_len, committed, last_drain>>
            /\ IF route = "batch" /\ PrepareRaises(r)
               THEN PrepareRaised(name)
               ELSE /\ UNCHANGED pc
                    /\ CASE route \in {"skip_code", "skip_name"} -> SkipRow
                         [] route = "queue_merge" ->
                              QueueMerge(r, QueueIndex(duplicate_queue, name))
                         [] route = "queue_new" -> QueueNew(r, name)
                         [] route = "skip_no_nutrition" -> SkipNoNutrition
                         [] route = "skip_non_american" -> SkipNonAmerican
                         [] route = "batch" ->
                              \E batch \in {Append(batch_data, prepare_row_data(r))} :
                                  AddToBatch(name, batch)

ProcessRow == ProcessRowOf(InputRows)

\* the rows of the chunks read so far: every chunk before the last was full
RowsRead == IF chunk_num = 0 THEN 0 ELSE (chunk_num - 1) * ChunkSize + chunk_len

\* the next chunk of the reader, of a file of max_rows rows at most; only the
\* last chunk of a file is short
ReadChunkOf(max_rows) ==
    /\ pc = "read"
    /\ chunk_num = 0 \/ chunk_len = ChunkSize
    /\ \E n \in 1..ChunkSize :
          /\ RowsRead + n <= max_rows
          /\ chunk_len' = n
    /\ chunk_num' = chunk_num + 1
    /\ pos' = 0
    /\ batch_data' = <<>>
    /\ pc' = "rows"
    /\ UNCHANGED <<results, seen_product_names, duplicate_queue, store, committed, conn,
                   row, routed, last_batch, last_drain>>

ReadChunk == ReadChunkOf(MaxRows)

\* the rest of the batch after the last row of a chunk
RemainingBatch(batch_ok, rejected) ==
    IF batch_data # <<>>
    THEN WriteBatch(results, store, batch_data, batch_ok, rejected)
    ELSE [results |-> results, store |-> store, conn_ops |-> <<>>, last_batch |-> last_batch]

\* the drain raised: the queue is not cleared and the run fails
DrainRaised(d, ops) ==
    /\ FailRun(d.results, d.store, ops)
    /\ last_drain' = d.last_drain
    /\ UNCHANGED duplicate_queue

\* the end of an iteration of a loop that commits after every chunk
ChunkDoneCommitAlways(d, period, ops) ==
    /\ results' = d.results
    /\ store' = d.store
    /\ last_drain' = d.last_drain
    /\ duplicate_queue' = IF d.drained THEN <<>> ELSE duplicate_queue
    /\ committed' = ConnCommit(d.store)
    /\ pc' = "read"
    /\ conn' = Append(ops, "commit")

\* the end of an iteration that leaves the drained entries in the queue
ChunkDoneKeepingQueue(d, period, ops) ==
    /\ results' = d.results
    /\ store' = d.store
    /\ last_drain' = d.last_drain
    /\ duplicate_queue' = duplicate_queue
    /\ committed' = IF period THEN ConnCommit(d.store) ELSE committed
    /\ pc' = "read"
    /\ conn' = IF period THEN Append(ops, "commit") ELSE ops

\* the end of an iteration of the chunk loop, with the commit of every
\* CommitEvery chunks
ChunkDone(d, period, ops) ==
    /\ results' = d.results
    /\ store' = d.store
    /\ last_drain' = d.last_drain
    /\ duplicate_queue' = IF d.drained THEN <<>> ELSE duplicate_queue
    /\ committed' = IF period THEN ConnCommit(d.store) ELSE committed
    /\ pc' = "read"
    /\ conn' = IF period THEN Append(ops, "commit") ELSE ops

\* after the last row of a chunk: the rest of the batch, then every
\* CommitEvery chunks the drain of the queue and the commit
EndChunk ==
    /\ pc = "rows"
    /\ pos = chunk_len
    /\ \E batch_ok \in BOOLEAN, rejected \in SUBSET DOMAIN batch_data,
          query_ok \in BOOLEAN, update_ok \in [DOMAIN duplicate_queue -> BOOLEAN],
          period \in {chunk_num % CommitEvery = 0} :
        /\ Oracle(batch_data, batch_ok, rejected)
        /\ batch_data = <<>> => batch_ok
        /\ ~(period /\ duplicate_queue # <<>>) =>
               query_ok /\ \A i \in DOMAIN duplicate_queue : update_ok[i]
        /\ \E w \in {RemainingBatch(batch_ok, rejected)} :
             /\ last_batch' = w.last_batch
             /\ \E d \in {IF period /\ duplicate_queue # <<>>
                          THEN RunDrain(w.results, w.store, duplicate_queue, query_ok,
                                        update_ok)
                          ELSE SkipDrain(w.results, w.store)} :
                  IF d.raised THEN DrainRaised(d, conn \o w.conn_ops)
                  ELSE ChunkDone(d, period, conn \o w.conn_ops)
    /\ UNCHANGED <<chunk_num, chunk_len, pos, seen_product_names, batch_data, row, routed>>

\* the results are returned: the final commit, the connection closed
Return(d) ==
    /\ results' = d.results
    /\ store' = d.store
    /\ last_drain' = d.last_drain
    /\ duplicate_queue' = duplicate_queue
    /\ committed' = ConnCommit(d.store)
    /\ conn' = conn \o <<"commit", "close">>
    /\ pc' = "done"

\* the reader is exhausted: the drain of what is left in the queue, the
\* final commit, the connection closed, the results returned
EndOfInput ==
    /\ pc = "read"
    /\ chunk_num >= 1
    /\ \E query_ok \in BOOLEAN, update_ok \in [DOMAIN duplicate_queue -> BOOLEAN] :
        /\ duplicate_queue = <<>> => query_ok
        /\ \E d \in {IF duplicate_queue # <<>>
                     THEN RunDrain(results, store, duplicate_queue, query_ok, update_ok)
                     ELSE SkipDrain(results, store)} :
             IF d.raised THEN DrainRaised(d, conn) ELSE Return(d)
    /\ UNCHANGED <<chunk_num, chunk_len, pos, seen_product_names, batch_data, row, routed,
                   last_batch>>

\* a parser error handled as any other exception: rollback, the error
\* recorded and raised
ParserErrorAsFailure ==
    /\ pc = "read"
    /\ store' = ConnRollback(store, committed)
    /\ results' = [results EXCEPT !.errors = Append(@, CsvParsingError)]
    /\ conn' = conn \o <<"rollback", "close">>
    /\ pc' = "raised"
    /\ UNCHANGED <<chunk_num, chunk_len, pos, seen_product_names, duplicate_queue, batch_data,
                   committed, row, routed, last_batch, last_drain>>

\* reading the next chunk raises pd.errors.ParserError: what was done is
\* committed, the error recorded and the results returned
ParserErrorExit ==
    /\ pc = "read"
    /\ committed' = ConnCommit(store)
    /\ results' = [results EXCEPT !.errors = Append(@, CsvParsingError)]
    /\ conn' = conn \o <<"commit", "close">>
    /\ pc' = "done"
    /\ UNCHANGED <<chunk_num, chunk_len, pos, seen_product_names, duplicate_queue, batch_data,
                   store, row, routed, last_batch, last_drain>>

\* reading the next chunk raises another exception (a truncated gzip
\* stream, an I/O error)
ReadErrorExit ==
    /\ pc = "read"
    /\ FailRun(results, store, conn)
    /\ UNCHANGED <<chunk_num, chunk_len, pos, seen_product_names, duplicate_queue, batch_data,
                   row, routed, last_batch, last_drain>>

\* an interrupt that leaves the function without the finally clause
InterruptLeavingOpen ==
    /\ pc \in {"read", "rows"}
    /\ pc' = "interrupted"
    /\ UNCHANGED <<chunk_num, chunk_len, pos, results, seen_product_names, duplicate_queue,
                   batch_data, store, committed, conn, row, routed, last_batch, last_drain>>

\* a KeyboardInterrupt arrives: it is no Exception, so neither handler runs;
\* the finally clause closes the connection and the interrupt goes on to the
\* caller
Interrupt ==
    /\ pc \in {"read", "rows"}
    /\ pc' = "interrupted"
    /\ conn' = Append(conn, "close")
    /\ UNCHANGED <<chunk_num, chunk_len, pos, results, seen_product_names, duplicate_queue,
                   batch_data, store, committed, row, routed, last_batch, last_drain>>

\* the call has ended
Terminated == pc \in {"done", "raised", "interrupted"}

\* the call has ended with "return results": the caller has the summary
SummaryReturned == pc = "done"

Next ==
    \/ ReadChunk
    \/ ProcessRow
    \/ EndChunk
    \/ EndOfInput
    \/ ParserErrorExit
    \/ ReadErrorExit
    \/ Interrupt

Spec == Init /\ [][Next]_vars

(***************************************************************************)
(* The drain of a long queue.  The run has read one chunk of MaxDrain      *)
(* products at most, each followed by a second occurrence of its name,     *)
(* written the products in one batch and queued the second occurrences;    *)
(* the reader is exhausted.                                                *)
(***************************************************************************)
MaxDrain == 6

DrainNames == <<"Oat", "Rye", "Fig", "Yam", "Pea", "Kale", "Leek", "Plum">>

\* the product of a name as first read, and its second occurrence
FirstRow(n) == Row("5" \o CharAt(Digits, n + 1), DrainNames[n], "Bo", NaN, "1", "US")

SecondRow(n) == Row("6" \o CharAt(Digits, n + 1), DrainNames[n], "Bonne", NaN, NaN, "France")

FirstBatch(k) == [n \in 1..k |-> prepare_row_data(FirstRow(n))]

InitDrain ==
    \E k \in 1..MaxDrain :
        /\ pc = "read"
        /\ chunk_num = 1
        /\ chunk_len = 2 * k
        /\ pos = 2 * k
        /\ results = [InitResults EXCEPT !.rows_processed = k,
                                         !.rows_imported = k,
                                         !.rows_skipped_duplicate_name = k]
        /\ seen_product_names = { product_name_clean(FirstRow(n)) : n \in 1..k }
        /\ duplicate_queue =
              [n \in 1..k |-> [product_name_clean |-> product_name_clean(SecondRow(n)),
                               row |-> SecondRow(n)]]
        /\ batch_data = FirstBatch(k)
        /\ store = UpsertAll(<<>>, FirstBatch(k), 1, {})
        /\ committed = <<>>
        /\ conn = <<>>
        /\ row = SecondRow(k)
        /\ routed = "queue_new"
        /\ last_batch = [called |-> TRUE, size |-> k, batch_ok |-> TRUE, rejected |-> 0,
                         imported |-> k, errors |-> <<>>, batch |-> batch_data,
                         written |-> 1..k, before |-> <<>>, after |-> store]
        /\ last_drain = NoDrain

NextDrain ==
    \/ EndOfInput
    \/ ParserErrorExit
    \/ ReadErrorExit

SpecDrain == InitDrain /\ [][NextDrain]_vars

(***************************************************************************)
(* The normalization of one chunk: a file of one chunk whose rows are      *)
(* American products with nutrient data, with texts of every kind in the   *)
(* energy and the serving size.                                            *)
(***************************************************************************)
CleanNumericTexts == {"99999.9996", "99999.9994", "100000", "12.3456", "-2.5", "abc", "inf"}

CleanServingTexts == {NaN, "30 g", "1 cup (240 ml)", "1/3 cup", "1/0 cup", "0", "bottle"}

CleanRows ==
    { [Row("51", "Oat", NaN, NaN, energy, "US") EXCEPT !["serving_size"] = serving_size] :
        energy \in CleanNumericTexts, serving_size \in CleanServingTexts }

InitClean ==
    /\ pc = "rows"
    /\ chunk_num = 1
    /\ chunk_len \in 1..ChunkSize
    /\ pos = 0
    /\ results = InitResults
    /\ seen_product_names = {}
    /\ duplicate_queue = <<>>
    /\ batch_data = <<>>
    /\ store = <<>>
    /\ committed = <<>>
    /\ conn = <<>>
    /\ row = Row(NaN, NaN, NaN, NaN, NaN, NaN)
    /\ routed = "none"
    /\ last_batch = NoBatch
    /\ last_drain = NoDrain

CleanRow == ProcessRowOf(CleanRows)

NextClean ==
    \/ CleanRow
    \/ EndChunk
    \/ EndOfInput

SpecClean == InitClean /\ [][NextClean]_vars

(***************************************************************************)
(* The writes of a run whose rows are products of distinct names, two of  *)
(* them under one code: every row that is read first under its name goes  *)
(* to the batch, and the second code of a pair meets the record of the     *)
(* first.                                                                  *)
(***************************************************************************)
WriteRows == {
    Row("51", "Oat", "Bo", "soy", "1", "US"),
    Row("51", "Rye", NaN, NaN, "2", "US"),
    Row("52", "Fig", "Bonne", NaN, "3", "US") }

WriteRow == ProcessRowOf(WriteRows)

NextWrite ==
    \/ ReadChunk
    \/ WriteRow
    \/ EndChunk
    \/ EndOfInput

SpecWrite == Init /\ [][NextWrite]_vars

(***************************************************************************)
(* The merges in the queue of a run whose rows all carry one name: the     *)
(* first row with nutrient data goes to the batch, the next opens the      *)
(* entry of the name, the rows after it are merged into the entry.         *)
(***************************************************************************)
MergeRows == {
    Row("11", "Jam", "Bo", "soy", "0", "US"),
    Row("12", " jam ", "Bonne", "water", "12.5", "us"),
    Row("13", "JAM", "Be", "milk", "20", NaN),
    Row("14", "Jam", NaN, NaN, NaN, "France"),
    Row("15", "jam", "B", NaN, "abc", "usa") }

MergeRow == ProcessRowOf(MergeRows)

NextMerge ==
    \/ ReadChunk
    \/ MergeRow
    \/ EndChunk
    \/ EndOfInput

SpecMerge == Init /\ [][NextMerge]_vars

(***************************************************************************)
(* A run over the rows of one name, of different codes, and a row whose     *)
(* number no float holds exactly, long enough for rows to arrive after the *)
(* queue was drained.                                                      *)
(***************************************************************************)
MaxNameRows == 5

NameRows ==
    { r \in InputRows : product_name_clean(r) = "jam" }
        \cup {Row("21", "Fig", NaN, NaN, "0.1", "US")}

ReadNameChunk == ReadChunkOf(MaxNameRows)

NameRow == ProcessRowOf(NameRows)

NextNames ==
    \/ ReadNameChunk
    \/ NameRow
    \/ EndChunk
    \/ EndOfInput

SpecNames == Init /\ [][NextNames]_vars

(***************************************************************************)
(* A run over products of distinct names whose allergens cells hold one    *)
(* fragment, two fragments or nothing.                                     *)
(***************************************************************************)
AllergenRows == {
    Row("61", "Oat", NaN, "Milk, Soy Lecithin", "1", "US"),
    Row("62", "Rye", NaN, "soy", "2", "US"),
    Row("63", "Fig", NaN, NaN, "3", "US") }

AllergenRow == ProcessRowOf(AllergenRows)

NextAllergen ==
    \/ ReadChunk
    \/ AllergenRow
    \/ EndChunk
    \/ EndOfInput

SpecAllergen == Init /\ [][NextAllergen]_vars

(***************************************************************************)
(* Properties                                                              *)
(***************************************************************************)
Has(seq, x) == \E i \in DOMAIN seq : seq[i] = x

\* the tags of an allergens value of a record
Tags(value) == IF IsDbList(value) THEN value.list ELSE {}

\* C1: when the set-based upsert of a batch fails, the imported count
\* returned for the batch is the number of its rows whose individual insert
\* succeeded: a row that storage rejects is not counted.
C1_ImportedIsFallbackSuccesses ==
    (last_batch.called /\ ~last_batch.batch_ok)
        => last_batch.imported = last_batch.size - last_batch.rejected

\* C2: when the set-based upsert fails and at least one row also fails its
\* individual insert, the errors returned for the batch, and so the errors of
\* the run, hold both the batch error and the recovery summary.
C2_RecoverySummaryRecorded ==
    (last_batch.called /\ ~last_batch.batch_ok /\ last_batch.rejected > 0)
        => /\ Has(last_batch.errors, BatchInsertFailed)
           /\ Has(last_batch.errors, BatchRecovery)
           /\ Has(results.errors, BatchRecovery)

\* the record that the single-row insert of a pending row leaves
InsertedAs(st, row_data) ==
    /\ CodeOf(row_data) \in DOMAIN st
    /\ st[CodeOf(row_data)] = RowDict(row_data)

\* C3: an entry of a drained queue for which no persisted record is found is
\* inserted as a new record (or counted as a failure); none is dropped.
C3_UnmatchedEntryInserted ==
    (last_drain.called /\ ~last_drain.raised)
        => \A i \in DOMAIN last_drain.log :
              ~last_drain.log[i].found
                 => \/ last_drain.log[i].failed
                    \/ InsertedAs(last_drain.after,
                                  prepare_row_data(last_drain.log[i].row))

\* C4: a row reaches the queue or the batch only if it passed the four
\* checks: code, name, nutrient data and locale.
C4_OnlyFilteredRowsRouted ==
    routed \in {"queue_new", "queue_merge", "batch"}
        => /\ ~IsBlank(Get(row, "code"))
           /\ ~IsBlank(Get(row, "product_name"))
           /\ has_nutrition(row)
           /\ is_american_product(row)

\* C5: after the merge of a pending entry into a persisted record, the
\* allergen set of the record is the union of the set it had and of the
\* normalized set of the pending entry.
C5_MergedAllergensAreUnion ==
    last_drain.called
        => \A i \in DOMAIN last_drain.log :
              last_drain.log[i].merged
                 => Tags(last_drain.after[last_drain.log[i].code]["allergens"])
                      = Tags(last_drain.before[last_drain.log[i].code]["allergens"])
                          \cup map_allergens_to_enum(last_drain.log[i].row["allergens"])

\* C6: the tags of the allergens value that a merge in the queue stores hold
\* every tag of the entry as it was and of the new occurrence.
C6_QueueMergeKeepsTags ==
    [][(routed' = "queue_merge" /\ pos' = pos + 1)
         => \A i \in DOMAIN duplicate_queue :
               duplicate_queue[i].product_name_clean = product_name_clean(row')
                  => (map_allergens_to_enum(duplicate_queue[i].row["allergens"])
                        \cup map_allergens_to_enum(row'["allergens"]))
                       \subseteq map_allergens_to_enum(duplicate_queue'[i].row["allergens"])]_vars

\* C7: the queue holds one entry at most for a trimmed, lower-cased product
\* name, and every entry is filed under the name of its row.
C7_OneEntryPerNameKey ==
    \A i, j \in DOMAIN duplicate_queue :
        /\ duplicate_queue[i].product_name_clean = NameKey(duplicate_queue[i].row["product_name"])
        /\ NameKey(duplicate_queue[i].row["product_name"])
             = NameKey(duplicate_queue[j].row["product_name"]) => i = j

\* a further occurrence of a queued name has been merged into its entry
C7_Witness ==
    /\ routed = "queue_merge"
    /\ Len(duplicate_queue) = 1
    /\ results.rows_skipped_duplicate_name = 2

RECURSIVE LongestFailureRun(_, _, _, _)
\* the longest run of consecutive failed merges in a log, from entry i on
LongestFailureRun(log, i, run, best) ==
    IF i > Len(log) THEN best
    ELSE IF log[i].failed
    THEN LongestFailureRun(log, i + 1, run + 1, IF run + 1 > best THEN run + 1 ELSE best)
    ELSE IF log[i].merged
    THEN LongestFailureRun(log, i + 1, 0, best)
    ELSE LongestFailureRun(log, i + 1, run, best)

\* C8: a drain aborts exactly when more than 5 merges in a row have failed.
C8_AbortsOnConsecutiveFailures ==
    last_drain.called
        => (last_drain.raised
              <=> LongestFailureRun(last_drain.log, 1, 0, 0) > FailureThreshold)

Failures(log) == Cardinality({ i \in DOMAIN log : log[i].failed })

\* the record a successful merge of a pending row leaves
MergedRecord(st, code, pending_row) ==
    update_existing_product_batch(st, code, st[code],
        convert_raw_row_to_db_format(st[code], pending_row), TRUE).store[code]

\* the record of an entry after a drain: merged, or as it was
EntryHandled(entry, before, after) ==
    IF entry.found /\ ~entry.failed
    THEN entry.merged /\ after[entry.code] = MergedRecord(before, entry.code, entry.row)
    ELSE entry.found => after[entry.code] = before[entry.code]

\* C9: a drain with fewer failed merges than the threshold runs to its end:
\* every entry was looked at, every other entry with a persisted record is
\* merged, and every record written before is still there.
C9_FailureSparesSiblings ==
    (last_drain.called /\ Failures(last_drain.log) < FailureThreshold)
        => /\ ~last_drain.raised
           /\ Len(last_drain.log) = Len(last_drain.queue)
           /\ \A i \in DOMAIN last_drain.log :
                 /\ last_drain.log[i].product_name_clean
                      = last_drain.queue[i].product_name_clean
                 /\ EntryHandled(last_drain.log[i], last_drain.before, last_drain.after)
           /\ DOMAIN last_drain.after = DOMAIN last_drain.before
           /\ store = last_drain.after

\* a merge failed, and an entry after it was merged with a change
C9_Witness ==
    /\ last_drain.called
    /\ ~last_drain.raised
    /\ \E i, j \in DOMAIN last_drain.log :
          /\ i < j
          /\ last_drain.log[i].failed
          /\ last_drain.log[j].merged
          /\ last_drain.log[j].changed
          /\ store[last_drain.log[j].code] # last_drain.before[last_drain.log[j].code]

\* C10: when the run fails and rolls back, the store is as the last commit
\* of the connection left it.
C10_RollbackRestoresLastCommit ==
    pc = "raised" => store = committed

\* the commits among the calls made on the connection
Commits(ops) == Cardinality({ i \in DOMAIN ops : ops[i] = "commit" })

\* the last n entries of a list, if it has as many
LastOps(ops, n) == IF Len(ops) < n THEN <<>> ELSE SubSeq(ops, Len(ops) - n + 1, Len(ops))

\* C11: the step that ends a chunk whose number is a multiple of CommitEvery
\* drains the queue, leaves it empty and commits after the drain; the step
\* that ends any other chunk neither drains nor commits.
C11_DrainAndCommitEveryPeriod ==
    [][(pc = "rows" /\ pc' = "read")
         => IF chunk_num % CommitEvery = 0
            THEN /\ duplicate_queue' = <<>>
                 /\ committed' = store'
                 /\ Commits(conn') = Commits(conn) + 1
                 /\ LastOps(conn', 1) = <<"commit">>
                 /\ duplicate_queue # <<>>
                      => last_drain'.called /\ last_drain'.queue = duplicate_queue
            ELSE /\ duplicate_queue' = duplicate_queue
                 /\ committed' = committed
                 /\ Commits(conn') = Commits(conn)
                 /\ last_drain' = last_drain]_vars

\* a chunk of the period has ended: the queue it found was drained, the
\* store with the merge was committed
C11_Witness ==
    /\ pc = "read"
    /\ chunk_num = CommitEvery
    /\ last_drain.called
    /\ last_drain.queue # <<>>
    /\ last_drain.after # last_drain.before
    /\ duplicate_queue = <<>>
    /\ committed = store

\* C12: a step in which an error other than a parser error is raised (the
\* reader fails, or the drain raises) rolls the connection back without a
\* commit, closes it, adds the error to the error list and raises it to the
\* caller.
C12_ErrorRollsBackAndRaises ==
    [][(\/ pc # "raised" /\ pc' = "raised"
        \/ last_drain' # last_drain /\ last_drain'.raised)
         => /\ pc' = "raised"
            /\ Len(conn') >= Len(conn) + 2
            /\ LastOps(conn', 2) = <<"rollback", "close">>
            /\ Commits(conn') = Commits(conn)
            /\ committed' = committed
            /\ Len(results'.errors) > Len(results.errors)
            /\ LastOps(results'.errors, 1) = <<ImportFailed>>
            /\ last_drain'.raised => Has(results'.errors, DuplicateBatchFailed)]_vars

\* the drain raised and the run has failed
C12_Witness ==
    /\ pc = "raised"
    /\ last_drain.called
    /\ last_drain.raised
    /\ LastOps(conn, 2) = <<"rollback", "close">>
    /\ LastOps(results.errors, 2) = <<DuplicateBatchFailed, ImportFailed>>

\* C13: every run that has ended, a failed one included, has handed the
\* summary to its caller.
C13_EveryRunReturnsSummary ==
    Terminated => SummaryReturned

\* C14: when an interrupt has ended the run, a commit was issued on the
\* connection before it was closed.
C14_InterruptCommitsBeforeClose ==
    pc = "interrupted" => Len(conn) >= 2 /\ LastOps(conn, 2) = <<"commit", "close">>

\* C15: the step in which a parser error of the reader is recorded commits
\* what was done, without a rollback, closes the connection and returns the
\* summary, with the parser error as its last error, instead of raising.
C15_ParserErrorCommitsAndReturns ==
    [][(results'.errors # results.errors
          /\ LastOps(results'.errors, 1) = <<CsvParsingError>>)
         => /\ SummaryReturned'
            /\ conn' = conn \o <<"commit", "close">>
            /\ committed' = store
            /\ store' = store
            /\ results' = [results EXCEPT !.errors = Append(@, CsvParsingError)]]_vars

\* a parser error after a chunk whose batch was written and not committed
C15_Witness ==
    /\ pc = "done"
    /\ LastOps(results.errors, 1) = <<CsvParsingError>>
    /\ chunk_num % CommitEvery # 0
    /\ results.rows_imported > 0
    /\ store # <<>>
    /\ committed = store
    /\ Commits(conn) = 1

\* C16: a drain at the end of the input whose failed merges stay below the
\* threshold leaves the error list as it was; a drain that reaches the
\* threshold raises, and only then are its error and the failure of the run
\* added to the list.
C16_MergeFailuresNotReported ==
    [][(pc = "read" /\ last_drain' # last_drain /\ last_drain'.called)
         => /\ last_drain'.raised <=> last_drain'.failed_count >= FailureThreshold
            /\ IF last_drain'.raised
               THEN /\ results'.errors = results.errors \o <<DuplicateBatchFailed, ImportFailed>>
                    /\ pc' = "raised"
               ELSE /\ results'.errors = results.errors
                    /\ pc' = "done"]_vars

\* a drain with failed merges has ended, the run has returned and the error
\* list is empty
C16_Witness ==
    /\ pc = "done"
    /\ last_drain.called
    /\ ~last_drain.raised
    /\ last_drain.failed_count > 1
    /\ Failures(last_drain.log) = last_drain.failed_count
    /\ results.errors = <<>>

\* the value the merge of convert_raw_row_to_db_format gives a column when the
\* record holds the cleaned value of existing_row and the pending row is new_row
CrossBatchValue(existing_row, new_row, col) ==
    ConvertField(ConvertValue(existing_row, col), ConvertValue(new_row, col), col)

\* C17: the two mergers apply one policy.  When a row is merged into an entry
\* of the queue, the cleaned value of every field of the merged entry is the
\* value that the merge against a persisted record gives for the same pair:
\* the record holding the cleaned value of the entry, the pending row being
\* the new row.
C17_MergersApplyOnePolicy ==
    [][(routed' = "queue_merge" /\ pos' = pos + 1)
         => \A i \in DOMAIN duplicate_queue :
               duplicate_queue[i].product_name_clean = product_name_clean(row')
                  => \A k \in DOMAIN target_columns :
                        target_columns[k] # "code"
                           => ConvertValue(duplicate_queue'[i].row, target_columns[k])
                                = CrossBatchValue(duplicate_queue[i].row, row', target_columns[k])]_vars

\* C18: the merge in the queue is idempotent.  Merging a row into an entry
\* that holds the same row, or merging a row a second time into the entry it
\* was just merged into, leaves every field of the entry as it was.
C18_QueueMergeIdempotent ==
    [][(routed' = "queue_merge" /\ pos' = pos + 1)
         => \A i \in DOMAIN duplicate_queue :
               (/\ duplicate_queue[i].product_name_clean = product_name_clean(row')
                /\ \/ duplicate_queue[i].row = row'
                   \/ routed = "queue_merge" /\ row = row')
                  => duplicate_queue'[i].row = duplicate_queue[i].row]_vars

\* None, or a number below the bound with no more decimal places than places
BelowBound(value, bound, places) ==
    \/ IsDbNone(value)
    \/ /\ IsDbNum(value)
       /\ value.num.ip < bound
       /\ value.num.fp % Pow10(FracDigits - places) = 0

\* C19: every numeric field of a prepared row in the batch and of a persisted
\* record is None or a number of at most three decimal places whose magnitude
\* is below the bound of its class, 100000.
C19_NumericValuesBelowBound ==
    /\ \A i \in DOMAIN batch_data : \A k \in DOMAIN target_columns :
          target_columns[k] \in numeric_columns => BelowBound(batch_data[i][k], MacroLimit, 3)
    /\ \A code \in DOMAIN store : \A k \in DOMAIN target_columns :
          target_columns[k] \in numeric_columns
             => BelowBound(store[code][db_column[k]], MacroLimit, 3)

\* C20: a row that passed the filters of the row loop is prepared and added
\* to the batch whatever its fields hold: the run goes on with the rows of
\* the chunk and no error is recorded for the row.
C20_PrepareNeverRaises ==
    [][(pc = "rows" /\ pos' = pos + 1 /\ routed' = "batch")
         => /\ pc' = "rows"
            /\ ~Has(results'.errors, ImportFailed)
            /\ \/ batch_data' = Append(batch_data, prepare_row_data(row'))
               \/ /\ batch_data' = <<>>
                  /\ last_batch'.called
                  /\ last_batch'.size = Len(batch_data) + 1]_vars

\* the rows of a call of insert_batch_data that were written under a code
WrittenUnder(call, code) == { i \in call.written : CodeOf(call.batch[i]) = code }

\* the record of a code is the row written last under it by the call, or the
\* record as it was when no row of the call was written under the code
RecordIsLastWritten(call, code, rows) ==
    IF rows = {}
    THEN code \in DOMAIN call.before /\ call.after[code] = call.before[code]
    ELSE call.after[code] = RowDict(call.batch[CHOOSE i \in rows : \A j \in rows : j <= i])

\* C21: a product code names one record, the record filed under it.  After a
\* call of insert_batch_data the record of a code holds, column by column,
\* the row that the call wrote last under the code, None included; a code
\* under which the call wrote no row keeps its record.
C21_RecordIsLastWrittenRow ==
    /\ \A code \in DOMAIN store : store[code]["code"] = DbStr(code)
    /\ last_batch.called
         => \A code \in DOMAIN last_batch.after :
               RecordIsLastWritten(last_batch, code, WrittenUnder(last_batch, code))

\* a call has written a row over the record of its code, and a column that
\* held a value holds None
C21_Witness ==
    /\ last_batch.called
    /\ \E code \in DOMAIN last_batch.before :
          /\ WrittenUnder(last_batch, code) # {}
          /\ ~IsDbNone(last_batch.before[code]["brands"])
          /\ IsDbNone(last_batch.after[code]["brands"])
          /\ code \in DOMAIN store
          /\ IsDbNone(store[code]["brands"])

RejectionReasons == {"skip_code", "skip_name", "skip_no_nutrition", "skip_non_american"}

\* C22: a row rejected by the filters adds one to the counter of its reason
\* and to nothing else, and the counter of each of the other three reasons
\* stays as it was: the four reasons count apart.
C22_OneCounterPerReason ==
    [][(pc = "rows" /\ pos' = pos + 1 /\ routed' \in RejectionReasons)
         => /\ results' = [results EXCEPT ![SkipCounter(routed')] = @ + 1]
            /\ \A other \in RejectionReasons \ {routed'} :
                  results'[SkipCounter(other)] = results[SkipCounter(other)]]_vars

\* the cap the model gives the error list of a run of MaxRows rows
ErrorCap == 2

\* C23: the error list of the results is capped: whatever fails during the
\* run, the list never holds more than ErrorCap messages.
C23_ErrorListCapped == Len(results.errors) <= ErrorCap

\* the entries of the queue that a merge of the row changes: the entry of
\* its name
MergedEntries(queue, r) ==
    { i \in DOMAIN queue : queue[i].product_name_clean = product_name_clean(r) }

\* a step of the row loop that merges the row into the entry of its name
IsQueueMerge(route, before_pos, after_pos) == route = "queue_merge" /\ after_pos = before_pos + 1

\* the text is a number and the number is zero
IsZeroText(v) == ~IsMissing(v) /\ ParseFloat(v).ok /\ NumIsZero(ParseFloat(v))

\* the text is a number and the number is positive
IsPositiveText(v) == ~IsMissing(v) /\ ParseFloat(v).ok /\ NumIsPositive(ParseFloat(v))

\* the cases in which the merge of a nutrient field takes the new value
AdoptsNutrient(pending, new) ==
    \/ IsMissing(pending) /\ ~IsMissing(new)
    \/ IsZeroText(pending) /\ IsPositiveText(new)

\* C24: a merge in the queue gives each of the four nutrient fields the new
\* value when the pending value is absent and the new one present, or the
\* pending value is zero and the new one a positive number; in every other
\* case the pending value stays.
C24_NutrientZeroToPositive ==
    [][IsQueueMerge(routed', pos, pos')
         => \A i \in MergedEntries(duplicate_queue, row') : \A col \in nutrition_fields :
               duplicate_queue'[i].row[col] =
                   IF AdoptsNutrient(duplicate_queue[i].row[col], row'[col])
                   THEN row'[col] ELSE duplicate_queue[i].row[col]]_vars

\* the entry opened by the row of code 11, whose energy is 0, has taken the
\* energy 12.5 of the row merged last
C24_Witness ==
    /\ routed = "queue_merge"
    /\ row["energy-kcal_100g"] = "12.5"
    /\ \E i \in DOMAIN duplicate_queue :
          /\ duplicate_queue[i].row["code"] = "11"
          /\ duplicate_queue[i].row["energy-kcal_100g"] = "12.5"

\* the fields with no merge rule of their own
PlainFields == csv_columns \ (nutrition_fields \cup {"allergens", "brands", "categories"})

\* C25: first seen wins.  A merge in the queue gives a field that is neither
\* a nutrient field nor allergens, brands or categories the new value only
\* when the entry holds none; a value the entry holds is never replaced, so
\* after any sequence of merges the field holds the first present value.
C25_FirstSeenWins ==
    [][IsQueueMerge(routed', pos, pos')
         => \A i \in MergedEntries(duplicate_queue, row') : \A col \in PlainFields :
               duplicate_queue'[i].row[col] =
                   IF IsMissing(duplicate_queue[i].row[col]) /\ ~IsMissing(row'[col])
                   THEN row'[col] ELSE duplicate_queue[i].row[col]]_vars

\* the entry opened by the row of code 13, which names no country, took the
\* country of an earlier merge and keeps it against the country of the row
\* merged last
C25_Witness ==
    /\ routed = "queue_merge"
    /\ row["countries"] = "France"
    /\ \E i \in DOMAIN duplicate_queue :
          /\ duplicate_queue[i].row["code"] = "13"
          /\ duplicate_queue[i].row["countries"] = "us"

\* C26: for brands and categories, a merge in the queue replaces a present
\* pending value only by a present new value that is strictly longer; a
\* new value that is absent, shorter or of the same length leaves the
\* pending value as it is.
C26_LongerTextWins ==
    [][IsQueueMerge(routed', pos, pos')
         => \A i \in MergedEntries(duplicate_queue, row') : \A col \in {"brands", "categories"} :
               ~IsMissing(duplicate_queue[i].row[col])
                  => duplicate_queue'[i].row[col] =
                        IF ~IsMissing(row'[col])
                           /\ Len(row'[col]) > Len(duplicate_queue[i].row[col])
                        THEN row'[col] ELSE duplicate_queue[i].row[col]]_vars

\* C29: a merge in the queue never turns a present field into an absent
\* one: a field of the entry that holds a value before the merge holds a
\* value after it, whatever the new row holds.
C29_MergeKeepsPresentFields ==
    [][IsQueueMerge(routed', pos, pos')
         => \A i \in MergedEntries(duplicate_queue, row') : \A col \in csv_columns :
               ~IsMissing(duplicate_queue[i].row[col])
                  => ~IsMissing(duplicate_queue'[i].row[col])]_vars

\* the rows that the five counters of the row loop account for
RowsCounted(res) ==
    res.rows_skipped + res.rows_skipped_duplicate_name + res.rows_skipped_no_nutrition
        + res.rows_skipped_non_american + res.rows_processed

\* C27: the counters conserve the rows.  Inside a chunk every row taken so
\* far is in one of the four skip counters, in rows_processed or in the batch
\* that is still to be written; at the end of every chunk, and when the
\* results are returned, the five counters add up to the rows read.
C27_CountersConserveRows ==
    /\ pc = "rows" =>
          RowsCounted(results) + Len(batch_data) = (chunk_num - 1) * ChunkSize + pos
    /\ (pc \in {"read", "done"} /\ chunk_num >= 1) => RowsCounted(results) = RowsRead

\* the results of a run of two chunks are returned with rows in four of the
\* counters
C27_Witness ==
    /\ pc = "done"
    /\ chunk_num = 2
    /\ results.rows_processed >= 1
    /\ results.rows_skipped >= 1
    /\ results.rows_skipped_duplicate_name >= 1
    /\ results.rows_skipped_non_american >= 1

\* the name key of a prepared row
PreparedName(row_data) == NameKey(RowDict(row_data)["product_name"].str)

\* the records that a call of process_duplicate_queue_batch changed
ChangedRecords(drain) ==
    { code \in DOMAIN drain.after :
        code \notin DOMAIN drain.before \/ drain.after[code] # drain.before[code] }

\* C28: one row per name goes to the batch, the first row of the name that
\* passes every filter; the names seen are never forgotten, so every later
\* row of the name, whatever its code, goes to the queue, also after a
\* drain.  A drain creates no record: it changes only records that exist,
\* found under the name of a drained entry, and leaves their code alone.
C28_OneBatchRowPerName ==
    [][/\ seen_product_names \subseteq seen_product_names'
       /\ (pc = "rows" /\ pos' = pos + 1 /\ routed' = "batch")
            => /\ product_name_clean(row') \notin seen_product_names
               /\ product_name_clean(row') \in seen_product_names'
               /\ has_nutrition(row') /\ is_american_product(row')
       /\ (pc = "rows" /\ pos' = pos + 1 /\ product_name_clean(row') \in seen_product_names
              /\ ~IsBlank(row'["code"]) /\ ~IsBlank(row'["product_name"]))
            => /\ routed' \in {"queue_new", "queue_merge"}
               /\ batch_data' = batch_data
               /\ store' = store
               /\ \E i \in DOMAIN duplicate_queue' :
                     duplicate_queue'[i].product_name_clean = product_name_clean(row')
       /\ \A i, j \in DOMAIN batch_data' :
             PreparedName(batch_data'[i]) = PreparedName(batch_data'[j]) => i = j
       /\ (last_drain' # last_drain /\ last_drain'.called)
            => /\ DOMAIN last_drain'.after = DOMAIN last_drain'.before
               /\ \A code \in ChangedRecords(last_drain') :
                     /\ last_drain'.after[code]["code"] = DbStr(code)
                     /\ \E k \in DOMAIN last_drain'.queue :
                           last_drain'.queue[k].product_name_clean
                              = NameKey(last_drain'.before[code]["product_name"].str)]_vars

\* after a drain of the entry of its name, a row of another code than the
\* record of the name was sent to the queue and the store holds no record
\* under its code
C28_Witness ==
    /\ last_drain.called
    /\ chunk_num = 3
    /\ routed = "queue_new"
    /\ row["code"] = "12"
    /\ \E k \in DOMAIN last_drain.queue :
          last_drain.queue[k].product_name_clean = product_name_clean(row)
    /\ DOMAIN store = {"11"}

\* the columns in which the merged row of an entry differs from the record
DifferingFields(original_row, merged_row) ==
    { c \in DOMAIN original_row : merged_row[c] # original_row[c] }

\* the update of one merged entry: the code stays, a column changes only
\* where the merged value differs, and an UPDATE is executed only if some
\* merged value differs
ScopedUpdate(entry, original_row, written_row, differing) ==
    /\ written_row["code"] = original_row["code"]
    /\ \A c \in DOMAIN original_row : written_row[c] # original_row[c] => c \in differing
    /\ entry.changed => differing # {}

\* C30: a merge update of a record writes only the fields whose merged
\* value differs from the persisted value, never changes the product code,
\* and performs no write when no field changes.
C30_UpdateWritesChangedFieldsOnly ==
    last_drain.called =>
        \A i \in DOMAIN last_drain.log :
            last_drain.log[i].merged =>
                ScopedUpdate(last_drain.log[i],
                             last_drain.before[last_drain.log[i].code],
                             last_drain.after[last_drain.log[i].code],
                             DifferingFields(
                                 last_drain.before[last_drain.log[i].code],
                                 convert_raw_row_to_db_format(
                                     last_drain.before[last_drain.log[i].code],
                                     last_drain.log[i].row)))

\* C31: an entry of the queue is handed to process_duplicate_queue_batch at
\* most once: the call gets the queue as it is, has one log entry per entry
\* of the queue at most, and the loop over the chunks goes on with an empty
\* queue.  While the run reads, the merges counted and the entries pending
\* are together no more than the rows counted as duplicates of a name, so
\* rows_merged_duplicates never exceeds rows_skipped_duplicate_name.
C31_EntryDrainedOnce ==
    [][/\ (last_drain' # last_drain /\ last_drain'.called)
            => /\ last_drain'.queue = duplicate_queue
               /\ Len(last_drain'.log) <= Len(duplicate_queue)
               /\ \A i \in DOMAIN last_drain'.log :
                     last_drain'.log[i].product_name_clean
                        = duplicate_queue[i].product_name_clean
               /\ pc' = "read" => duplicate_queue' = <<>>
       /\ pc' \in {"read", "rows"}
            => results'.rows_merged_duplicates + Len(duplicate_queue')
                  <= results'.rows_skipped_duplicate_name
       /\ results'.rows_merged_duplicates <= results'.rows_skipped_duplicate_name]_vars

\* the drain at the end of the input merged the one entry queued after an
\* earlier drain, which had merged an entry too
C31_Witness ==
    /\ pc = "done"
    /\ chunk_num = 3
    /\ last_drain.called
    /\ Len(last_drain.queue) = 1
    /\ last_drain.log[1].merged
    /\ results.rows_merged_duplicates = 2

\* the tags of the allergens of a prepared row
PreparedTags(row_data) ==
    IF IsDbList(RowDict(row_data)["allergens"]) THEN RowDict(row_data)["allergens"].list
    ELSE {}

\* every fragment contributes one tag at most, so the tags are no more than
\* the fragments
OneTagPerFragment(parts, tags) ==
    /\ \A i \in DOMAIN parts : Cardinality(PartAllergens(parts[i])) <= 1
    /\ Cardinality(tags) <= Len(parts)

\* C32: in the allergens of a prepared row every fragment of the cell has
\* contributed one tag at most, and the cell "Milk, Soy Lecithin" is mapped
\* to MILK and SOYBEANS.
C32_FirstMatchPerFragment ==
    [][(pc = "rows" /\ pos' = pos + 1 /\ routed' = "batch" /\ ~IsNa(row'["allergens"]))
         => /\ OneTagPerFragment(AllergenParts(row'["allergens"]),
                                 PreparedTags(prepare_row_data(row')))
            /\ row'["allergens"] = "Milk, Soy Lecithin"
                  => PreparedTags(prepare_row_data(row')) = {"MILK", "SOYBEANS"}]_vars

\* a quantity and a unit, or neither
QuantityWithUnit(serving) == IsDbNone(serving.quantity) <=> serving.unit = None

\* C33: when a row is prepared, parse_serving_size returns for its serving
\* size a quantity together with a unit, or neither of the two.
C33_QuantityAndUnitTogether ==
    [][(pc = "rows" /\ pos' = pos + 1 /\ routed' = "batch" /\ ~PrepareRaises(row'))
         => QuantityWithUnit(parse_serving_size(row'["serving_size"]))]_vars

\* C34: every batch handed to insert_batch_data holds between one row and
\* BatchLimit rows, all of them rows of the chunk being processed: a chunk
\* starts with an empty batch, the batch is handed over in the row loop as
\* soon as it holds BatchLimit rows, and what is left of it is handed over
\* at the end of the chunk.
C34_BatchWithinChunkAndLimit ==
    [][/\ (pc = "read" /\ pc' = "rows") => batch_data' = <<>>
       /\ pc' = "rows" => Len(batch_data') < BatchLimit /\ Len(batch_data') <= pos'
       /\ last_batch' # last_batch
            => /\ last_batch'.called
               /\ last_batch'.size = Len(last_batch'.batch)
               /\ last_batch'.size \in 1..BatchLimit
               /\ last_batch'.size <= pos'
               /\ pc' = "rows" => last_batch'.size = BatchLimit /\ batch_data' = <<>>
       /\ (pc = "rows" /\ pos' = pos /\ pc' \in {"read", "raised"})
            => IF batch_data # <<>>
               THEN last_batch' # last_batch /\ last_batch'.batch = batch_data
               ELSE last_batch' = last_batch]_vars

\* the first chunk filled a batch, which was handed over in the row loop,
\* and the one prepared row of the second chunk was handed over at its end
C34_Witness ==
    /\ pc = "read"
    /\ chunk_num = 2
    /\ results.rows_processed = BatchLimit + 1
    /\ last_batch.called
    /\ last_batch.size = 1
    /\ last_batch.batch = batch_data

\* the prepared row of r is the last row of the batch in progress or of the
\* batch that the step handed to insert_batch_data
LastOfBatch(row_data, batch, call) ==
    \/ batch # <<>> /\ batch[Len(batch)] = row_data
    \/ batch = <<>> /\ call.called /\ call.batch[Len(call.batch)] = row_data

\* C35: the name of every entry of the queue is in seen_product_names.  A
\* name enters the set only with a row of that name that passed every filter
\* and, unless its preparation raised, was added to the batch; an entry is
\* added to the queue only for a name of the set; the set only grows.
C35_QueuedNamesWereSeen ==
    [][/\ \A i \in DOMAIN duplicate_queue' :
             duplicate_queue'[i].product_name_clean \in seen_product_names'
       /\ seen_product_names \subseteq seen_product_names'
       /\ seen_product_names' # seen_product_names
            => /\ routed' = "batch"
               /\ seen_product_names' = seen_product_names \cup {product_name_clean(row')}
               /\ has_nutrition(row') /\ is_american_product(row')
               /\ pc' = "rows" => LastOfBatch(prepare_row_data(row'), batch_data', last_batch')
       /\ Len(duplicate_queue') > Len(duplicate_queue)
            => duplicate_queue'[Len(duplicate_queue')].product_name_clean
                  \in seen_product_names]_vars

\* a row was queued under a name whose first row had been written with its
\* batch, while the set holds another name too
C35_Witness ==
    /\ pc = "rows"
    /\ routed = "queue_new"
    /\ last_batch.called
    /\ Cardinality(seen_product_names) = 2
    /\ \E i \in DOMAIN last_batch.batch :
          PreparedName(last_batch.batch[i]) = product_name_clean(row)
    /\ duplicate_queue[Len(duplicate_queue)].product_name_clean = product_name_clean(row)

\* the places of conn.close() in the log of the connection
Closes(ops) == { i \in DOMAIN ops : ops[i] = "close" }

\* C36: while the run goes on the connection is open; when the call has
\* ended, by a return, a parser error, another error or an interrupt, the
\* connection was closed once, as the last operation on it, and nothing is
\* written after it.
C36_ClosedOnceAtExit ==
    [][/\ ~Terminated' => Closes(conn') = {}
       /\ Terminated' => Closes(conn') = {Len(conn')}
       /\ Terminated => conn' = conn /\ store' = store /\ committed' = committed]_vars

\* an interrupt ended a run that had written and committed: the connection
\* was closed after the commit
C36_Witness ==
    /\ pc = "interrupted"
    /\ DOMAIN store # {}
    /\ Len(conn) >= 2
    /\ conn[Len(conn) - 1] = "commit"
    /\ conn[Len(conn)] = "close"

\* the entries that are in the queue before and after a step, under the
\* same name
StayingEntries(queue, after) ==
    { i \in DOMAIN queue \cap DOMAIN after :
        after[i].product_name_clean = queue[i].product_name_clean }

\* C37: a nutrient field of an entry of the queue that holds a positive
\* number keeps its value as long as the entry is in the queue, whatever is
\* merged into the entry.
C37_PositiveNutrientStable ==
    [][\A i \in StayingEntries(duplicate_queue, duplicate_queue') :
          \A col \in nutrition_fields :
             IsPositiveText(duplicate_queue[i].row[col])
                => duplicate_queue'[i].row[col] = duplicate_queue[i].row[col]]_vars

\* a row whose energy is 20 was merged into an entry whose energy is 12.5,
\* and the entry has kept 12.5
C37_Witness ==
    /\ routed = "queue_merge"
    /\ row["energy-kcal_100g"] = "20"
    /\ \E i \in DOMAIN duplicate_queue :
          /\ duplicate_queue[i].product_name_clean = product_name_clean(row)
          /\ duplicate_queue[i].row["energy-kcal_100g"] = "12.5"

====
